---------------------------- MODULE Spec2Model ----------------------------
(***************************************************************************)
(* Model of the native-pack encoder of src/modules/lunii_converter.py:     *)
(* the cipher primitives (XXTEA, AES-CBC with PKCS7 padding, the           *)
(* encrypt-first-block rule), the index serializers, the asset list        *)
(* builders, the ZIP format tests and the orchestrator                     *)
(* LuniiPackConverter.convert / _do_convert.                               *)
(*                                                                         *)
(* Bytes are naturals in 0..255 and byte strings are sequences of bytes.   *)
(* A 32-bit word is a pair <<hi, lo>> of 16-bit halves, so that all the    *)
(* arithmetic of the cipher is exact modulo 2^32.                          *)
(***************************************************************************)
EXTENDS Integers, Sequences, FiniteSets, TLC

VARIABLES
    \* ---- cipher harness: encrypt_first_block applied to drawn inputs
    fpc,        \* "idle" | "input" | "efb" | "ri" | "bt" | "plain" | "encrypted" | "decrypted"
                \* | "rle" | "bmp"
    fdata,      \* input byte string handed to the function under test
    ffn,        \* the encrypt_fn handed to encrypt_first_block
    fout,       \* the result of encrypt_first_block
    fuuid,      \* the uuid of the pack whose bt is computed
    fbt,        \* the result of generate_bt_v2
    rle,        \* [pattern, height, y, x, run_length, run_color]: the image and the
                \* loops of convert_image_to_lunii_bmp
    \* ---- the input ZIP, the constructor arguments and the environment
    zip,        \* [names, story_valid, story]: entries and parsed story.json
    config,     \* [version, aes_key, aes_iv] of LuniiPackConverter.__init__
    env,        \* [ffmpeg, bad_images]: transcoder on PATH, undecodable images
    \* ---- one call of LuniiPackConverter.convert
    pc,         \* position in convert / _do_convert
    progress,   \* the calls of the progress callback, in order
    tmpdir,     \* "none" | "exists" | "deleted": the TemporaryDirectory
    image_assets, audio_assets, list_nodes,   \* the derived views
    idx,        \* index of the running loop
    converted_audio_cache,                    \* name -> mp3 bytes
    ffmpeg_calls,   \* the subprocess runs: [name, exit]
    output_dir, \* [ref, rf, sf, files, md]: the tree under <tmpdir>/output
    out_zip,    \* [state, entries]: the file at output_path
    result      \* "pending", None_ or the returned path

fvars == <<fpc, fdata, ffn, fout, fuuid, fbt, rle>>
inputs == <<zip, config, env>>
views == <<image_assets, audio_assets, list_nodes>>
run == <<pc, progress, tmpdir, idx, converted_audio_cache, ffmpeg_calls,
         output_dir, out_zip, result>>
cvars == <<inputs, views, run>>
vars == <<fvars, cvars>>

----------------------------------------------------------------------------
(* Bounds of the model.                                                    *)

\* lengths 0..MaxShortLen of short inputs to the ciphers
MaxShortLen == 9
\* inputs around the block: lengths 512-2 .. 512+MaxTailLen
MaxTailLen == 18
\* number of distinct byte patterns per length
MaxSeed == 1
\* buffers encrypted and decrypted again: lengths 0..MaxRoundTripLen
MaxRoundTripLen == 14
\* images handed to the RLE4 encoder: patterns 1..MaxPattern, 1..MaxRows rows
MaxPattern == 6
MaxRows == 2
\* entries of an index file longer than the first block
LongIndexEntries == 44
\* stage nodes of a story.json
MaxStages == 3
\* images of a pack whose ri and bt are computed alone: 0..MaxImages
MaxImages == 7
\* uuids of such a pack: 1..MaxUuid
MaxUuid == 8
\* bytes of a converted image and of a transcoded audio file
BmpFixtureLen == 540
Mp3FixtureLen == 24

----------------------------------------------------------------------------
(* Program constants.                                                      *)

ENCRYPTION_BLOCK_SIZE == 512

XXTEA_KEY_V2 ==
    <<145, 189, 122, 10, 167, 84, 64, 169, 187, 212, 157, 108, 224, 220, 192, 227>>

\* 0x9E3779B9 as <<hi, lo>>
_XXTEA_DELTA == <<40503, 31161>>

Zeros(n) == [i \in 1..n |-> 0]

\* a blank MP3 of 108 bytes
BlankMp3Padded ==
    <<255, 251, 144, 0>> \o Zeros(32) \o <<88, 105, 110, 103, 0, 0, 0, 15, 0, 0, 0, 1,
      0, 0, 0, 108, 0, 16, 32, 48, 64, 80, 96, 112, 128, 144, 160, 176,
      192, 208, 224, 255>> \o Zeros(40)

BLANK_MP3 ==
    <<255, 251, 144, 0, 0, 0, 0, 0,
      0, 0, 0, 0, 0, 0, 0, 0,
      0, 0, 0, 0, 0, 0, 0, 0,
      0, 0, 0, 0, 0, 0, 0, 0,
      0, 0, 0, 0, 88, 105, 110, 103,
      0, 0, 0, 15, 0, 0, 0, 1,
      0, 0, 0, 104, 0, 16, 32, 48,
      64, 80, 96, 112, 128, 144, 160, 176,
      192, 208, 224, 255>> \o Zeros(36)

----------------------------------------------------------------------------
(* Byte strings and 32-bit words.                                          *)

Min(a, b) == IF a < b THEN a ELSE b
Max(a, b) == IF a > b THEN a ELSE b

\* data[:n]
Take(s, n) == SubSeq(s, 1, Min(n, Len(s)))
\* data[n:]
Drop(s, n) == SubSeq(s, n + 1, Len(s))

\* TRUE, once TLC has computed x (it evaluates definitions and arguments on demand)
Evaluated(x) == x = x

BitXor(a, b) == (a + b) % 2

XorNib ==
    [a \in 0..15 |-> [b \in 0..15 |->
        BitXor(a % 2, b % 2)
        + 2 * BitXor((a \div 2) % 2, (b \div 2) % 2)
        + 4 * BitXor((a \div 4) % 2, (b \div 4) % 2)
        + 8 * BitXor(a \div 8, b \div 8)]]

Xor8(a, b) == 16 * XorNib[a \div 16][b \div 16] + XorNib[a % 16][b % 16]

\* a function with domain 1..n, written out as a tuple
AsTuple(f) == f \o <<>>

\* the xor of two bytes, tabulated: XorByte[a + 1][b + 1] = a ^ b
XorByte == AsTuple([a \in 1..256 |-> AsTuple([b \in 1..256 |-> Xor8(a - 1, b - 1)])])

Xor16(a, b) ==
    256 * XorByte[(a \div 256) + 1][(b \div 256) + 1] + XorByte[(a % 256) + 1][(b % 256) + 1]

\* a ^ b
WXor(a, b) == <<Xor16(a[1], b[1]), Xor16(a[2], b[2])>>
\* (a + b) & 0xFFFFFFFF
WAdd(a, b) ==
    LET lo == a[2] + b[2]
    IN  <<(a[1] + b[1] + (lo \div 65536)) % 65536, lo % 65536>>
\* (a - b) & 0xFFFFFFFF
WSub(a, b) ==
    LET borrow == IF a[2] < b[2] THEN 1 ELSE 0
    IN  <<(a[1] - b[1] - borrow + 65536) % 65536, (a[2] - b[2] + 65536) % 65536>>
\* a >> k, 0 < k < 16
WShr(a, k) == <<a[1] \div (2^k), (a[2] \div (2^k)) + (a[1] % (2^k)) * (2^(16 - k))>>
\* (a << k) & 0xFFFFFFFF, 0 < k < 16
WShl(a, k) == <<((a[1] * (2^k)) % 65536) + (a[2] \div (2^(16 - k))), (a[2] * (2^k)) % 65536>>

\* the word whose little-endian bytes are b0, b1, b2, b3
WordOfBytes(b0, b1, b2, b3) == <<b2 + 256 * b3, b0 + 256 * b1>>
\* (w >> (8 * m)) & 0xFF
ByteOfWord(w, m) ==
    CASE m = 0 -> w[2] % 256
      [] m = 1 -> w[2] \div 256
      [] m = 2 -> w[1] % 256
      [] OTHER -> w[1] \div 256

\* 0-based read with 0 for the bytes past the end
ByteAt0(data, i) == IF i < Len(data) THEN data[i + 1] ELSE 0

\* the word count with a trailing partial word dropped
WordCountFloor(data) == Len(data) \div 4

WordCount(data) == (Len(data) \div 4) + (IF Len(data) % 4 # 0 THEN 1 ELSE 0)

_bytes_to_uint32_le(data) ==
    AsTuple([j \in 1..WordCount(data) |->
        WordOfBytes(ByteAt0(data, 4 * (j - 1)), ByteAt0(data, 4 * (j - 1) + 1),
                    ByteAt0(data, 4 * (j - 1) + 2), ByteAt0(data, 4 * (j - 1) + 3))])

\* before the reverse, byte i of the packing is data[length - 1 - i]
KeyByte0(data, i) == IF i < Len(data) THEN data[Len(data) - i] ELSE 0

_bytes_to_uint32_be(data) ==
    LET n == WordCount(data)
        v == [j \in 1..n |->
                WordOfBytes(KeyByte0(data, 4 * (j - 1)), KeyByte0(data, 4 * (j - 1) + 1),
                            KeyByte0(data, 4 * (j - 1) + 2), KeyByte0(data, 4 * (j - 1) + 3))]
    IN  AsTuple([j \in 1..n |-> v[n + 1 - j]])

_uint32_to_bytes(v) ==
    AsTuple([i \in 1..(4 * Len(v)) |-> ByteOfWord(v[((i - 1) \div 4) + 1], (i - 1) % 4)])

----------------------------------------------------------------------------
(* XXTEA (V2).                                                             *)
(* TLC evaluates definitions and arguments on demand; the operators below  *)
(* compare a value with itself where it has to be computed before the     *)
(* next step starts, so that the steps run in the order of the code.       *)

\* (total >> 2) & 3
RoundE(total) == (total[2] \div 4) % 4

\* k[(p & 3) ^ e]
KeyWord(k, p, e) == k[XorNib[p % 4][e] + 1]

\* (q * _XXTEA_DELTA) & 0xFFFFFFFF
TimesDelta(q) ==
    <<(q * _XXTEA_DELTA[1] + ((q * _XXTEA_DELTA[2]) \div 65536)) % 65536,
      (q * _XXTEA_DELTA[2]) % 65536>>

\* mx = (((z >> 5) ^ (y << 2)) + ((y >> 3) ^ (z << 4))) ^ ((total ^ y) + (kw ^ z)),
\* computed inside out: the four xors, then the two sums, then the last xor
MxClose(s, t) == IF s = s /\ t = t THEN WXor(s, t) ELSE s

MxCombine(a, b, c, d) ==
    IF a = a /\ b = b /\ c = c /\ d = d
    THEN MxClose(WAdd(a, b), WAdd(c, d)) ELSE a

XxteaMx(z, y, total, kw) ==
    MxCombine(WXor(WShr(z, 5), WShl(y, 2)), WXor(WShr(y, 3), WShl(z, 4)),
              WXor(total, y), WXor(kw, z))

\* v[p] = (v[p] + mx) & 0xFFFFFFFF; z = v[p]
EncryptWord(st, p, mx) ==
    IF mx = mx
    THEN <<[st[1] EXCEPT ![p + 1] = WAdd(st[1][p + 1], mx)], WAdd(st[1][p + 1], mx)>>
    ELSE st

\* Pass i of the encryption, counted over all rounds: round i \div (n + 1)
\* (total is DELTA times the number of rounds begun), word p = i % (n + 1).
\* st = <<v, z>>.  y is v[p + 1], and v[0] for the word n that closes the round.
EncryptStep(st, i, n, k) ==
    EncryptWord(st, i % (n + 1),
                XxteaMx(st[2], st[1][((i + 1) % (n + 1)) + 1],
                        TimesDelta((i \div (n + 1)) + 1),
                        KeyWord(k, i % (n + 1), RoundE(TimesDelta((i \div (n + 1)) + 1)))))

\* the passes lo .. hi-1 in order, in eight runs of c passes
RECURSIVE EncryptRange(_, _, _, _, _)
EncryptRuns(st, lo, hi, c, n, k) ==
    LET s1 == EncryptRange(st, lo, Min(lo + c, hi), n, k)
        s2 == EncryptRange(s1, Min(lo + c, hi), Min(lo + 2 * c, hi), n, k)
        s3 == EncryptRange(s2, Min(lo + 2 * c, hi), Min(lo + 3 * c, hi), n, k)
        s4 == EncryptRange(s3, Min(lo + 3 * c, hi), Min(lo + 4 * c, hi), n, k)
        s5 == EncryptRange(s4, Min(lo + 4 * c, hi), Min(lo + 5 * c, hi), n, k)
        s6 == EncryptRange(s5, Min(lo + 5 * c, hi), Min(lo + 6 * c, hi), n, k)
        s7 == EncryptRange(s6, Min(lo + 6 * c, hi), Min(lo + 7 * c, hi), n, k)
    IN  IF s1 = s1 /\ s2 = s2 /\ s3 = s3 /\ s4 = s4 /\ s5 = s5 /\ s6 = s6 /\ s7 = s7
        THEN EncryptRange(s7, Min(lo + 7 * c, hi), hi, n, k) ELSE st

EncryptRange(st, lo, hi, n, k) ==
    IF hi <= lo THEN st
    ELSE IF hi = lo + 1 THEN EncryptStep(st, lo, n, k)
    ELSE EncryptRuns(st, lo, hi, (hi - lo + 7) \div 8, n, k)

\* q = 52 // length + 1 rounds of length passes each, z = v[n] at the start
_xxtea_encrypt_uint32(v, k) ==
    EncryptRange(<<v, v[Len(v)]>>, 0, ((52 \div Len(v)) + 1) * Len(v), Len(v) - 1, k)[1]

\* v[p] = (v[p] - mx) & 0xFFFFFFFF; y = v[p]
DecryptWord(st, p, mx) ==
    IF mx = mx
    THEN <<[st[1] EXCEPT ![p + 1] = WSub(st[1][p + 1], mx)], WSub(st[1][p + 1], mx)>>
    ELSE st

\* Pass i of the decryption, counted over all rounds: round i \div (n + 1)
\* (total is DELTA times the number of rounds left, q at the start), word
\* p = n - i % (n + 1).  st = <<v, y>>.  z is v[p - 1], and v[n] for the
\* word 0 that closes the round.
DecryptStep(st, i, n, q, k) ==
    DecryptWord(st, n - (i % (n + 1)),
                XxteaMx(st[1][((2 * n - (i % (n + 1))) % (n + 1)) + 1], st[2],
                        TimesDelta(q - (i \div (n + 1))),
                        KeyWord(k, n - (i % (n + 1)),
                                RoundE(TimesDelta(q - (i \div (n + 1)))))))

\* the passes lo .. hi-1 in order, in eight runs of c passes
RECURSIVE DecryptRange(_, _, _, _, _, _)
DecryptRuns(st, lo, hi, c, n, q, k) ==
    LET s1 == DecryptRange(st, lo, Min(lo + c, hi), n, q, k)
        s2 == DecryptRange(s1, Min(lo + c, hi), Min(lo + 2 * c, hi), n, q, k)
        s3 == DecryptRange(s2, Min(lo + 2 * c, hi), Min(lo + 3 * c, hi), n, q, k)
        s4 == DecryptRange(s3, Min(lo + 3 * c, hi), Min(lo + 4 * c, hi), n, q, k)
        s5 == DecryptRange(s4, Min(lo + 4 * c, hi), Min(lo + 5 * c, hi), n, q, k)
        s6 == DecryptRange(s5, Min(lo + 5 * c, hi), Min(lo + 6 * c, hi), n, q, k)
        s7 == DecryptRange(s6, Min(lo + 6 * c, hi), Min(lo + 7 * c, hi), n, q, k)
    IN  IF s1 = s1 /\ s2 = s2 /\ s3 = s3 /\ s4 = s4 /\ s5 = s5 /\ s6 = s6 /\ s7 = s7
        THEN DecryptRange(s7, Min(lo + 7 * c, hi), hi, n, q, k) ELSE st

DecryptRange(st, lo, hi, n, q, k) ==
    IF hi <= lo THEN st
    ELSE IF hi = lo + 1 THEN DecryptStep(st, lo, n, q, k)
    ELSE DecryptRuns(st, lo, hi, (hi - lo + 7) \div 8, n, q, k)

\* a decryption that leaves the words as they are
DecryptWithoutRounds(v, k) == v

\* q = 52 // length + 1 rounds of length passes each, y = v[0] at the start
_xxtea_decrypt_uint32(v, k) ==
    DecryptRange(<<v, v[1]>>, 0, ((52 \div Len(v)) + 1) * Len(v), Len(v) - 1,
                 (52 \div Len(v)) + 1, k)[1]

\* the words and the key are converted before the rounds start
XxteaEncryptWords(v, k) ==
    IF v = v /\ k = k
    THEN _uint32_to_bytes(_xxtea_encrypt_uint32(v, k)) ELSE <<>>

xxtea_encrypt(data, key) ==
    IF Len(data) = 0 THEN data
    ELSE IF WordCount(data) < 2 THEN data
    ELSE XxteaEncryptWords(_bytes_to_uint32_le(data), _bytes_to_uint32_be(key))

XxteaDecryptWords(v, k) ==
    IF v = v /\ k = k
    THEN _uint32_to_bytes(_xxtea_decrypt_uint32(v, k)) ELSE <<>>

xxtea_decrypt(data, key) ==
    IF Len(data) = 0 THEN data
    ELSE IF WordCount(data) < 2 THEN data
    ELSE XxteaDecryptWords(_bytes_to_uint32_le(data), _bytes_to_uint32_be(key))

----------------------------------------------------------------------------
(* AES-CBC with PKCS7 padding (V3).                                        *)

None_ == "None"

\* key and IV of the V3 fixtures (they come from the target device)
AES_KEY == [i \in 1..16 |-> (17 * i) % 256]
AES_IV  == [i \in 1..16 |-> (255 - 3 * i) % 256]

\* padding.PKCS7(128): 1..16 bytes, each equal to their number
Pkcs7Pad(data) ==
    data \o [i \in 1..(16 - (Len(data) % 16)) |-> 16 - (Len(data) % 16)]

\* The block cipher of the `cryptography` package, as a keyed bijection on
\* 16-byte blocks (the library's AES is not part of the repository).
AesBlockEncrypt(key, block) ==
    [j \in 1..16 |-> (block[j] + key[((j - 1) % Len(key)) + 1] + j) % 256]

XorBlock(a, b) == [j \in 1..16 |-> Xor8(a[j], b[j])]

\* modes.CBC: block i is the cipher of (plain block i xor cipher block i-1);
\* st = <<cipher block i-1, the cipher text so far>>
CbcAppend(st, c) == IF c = c THEN <<c, st[2] \o c>> ELSE st

CbcNext(st, i, padded, key) ==
    CbcAppend(st, AsTuple(AesBlockEncrypt(key,
                      XorBlock(SubSeq(padded, 16 * i + 1, 16 * i + 16), st[1]))))

\* the blocks lo .. hi-1 in order, in eight runs of c blocks
RECURSIVE CbcBlocks(_, _, _, _, _)
CbcRuns(st, lo, hi, c, padded, key) ==
    LET s1 == CbcBlocks(st, lo, Min(lo + c, hi), padded, key)
        s2 == CbcBlocks(s1, Min(lo + c, hi), Min(lo + 2 * c, hi), padded, key)
        s3 == CbcBlocks(s2, Min(lo + 2 * c, hi), Min(lo + 3 * c, hi), padded, key)
        s4 == CbcBlocks(s3, Min(lo + 3 * c, hi), Min(lo + 4 * c, hi), padded, key)
        s5 == CbcBlocks(s4, Min(lo + 4 * c, hi), Min(lo + 5 * c, hi), padded, key)
        s6 == CbcBlocks(s5, Min(lo + 5 * c, hi), Min(lo + 6 * c, hi), padded, key)
        s7 == CbcBlocks(s6, Min(lo + 6 * c, hi), Min(lo + 7 * c, hi), padded, key)
    IN  IF s1 = s1 /\ s2 = s2 /\ s3 = s3 /\ s4 = s4 /\ s5 = s5 /\ s6 = s6 /\ s7 = s7
        THEN CbcBlocks(s7, Min(lo + 7 * c, hi), hi, padded, key) ELSE st

CbcBlocks(st, lo, hi, padded, key) ==
    IF hi <= lo THEN st
    ELSE IF hi = lo + 1 THEN CbcNext(st, lo, padded, key)
    ELSE CbcRuns(st, lo, hi, (hi - lo + 7) \div 8, padded, key)

CbcEncrypt(padded, key, iv) ==
    IF padded = padded
    THEN CbcBlocks(<<iv, <<>>>>, 0, Len(padded) \div 16, padded, key)[2] ELSE padded

aes_cbc_encrypt(data, key, iv) == CbcEncrypt(Pkcs7Pad(data), key, iv)

----------------------------------------------------------------------------
(* The encryption function of a conversion and the first-block rule.       *)

\* a test of the key alone
GetEncryptFnRaisesOnKey(version, aes_key, aes_iv) ==
    /\ version # "V2"
    /\ (version = "V3" => aes_key = <<>>)

\* _get_encrypt_fn raises ValueError
GetEncryptFnRaises(version, aes_key, aes_iv) ==
    /\ version # "V2"
    /\ (version = "V3" => (aes_key = <<>> \/ aes_iv = <<>>))

\* the lambda _get_encrypt_fn returns, as the record of what it closes over
_get_encrypt_fn(version, aes_key, aes_iv) ==
    IF version = "V2" THEN [version |-> "V2", key |-> XXTEA_KEY_V2, iv |-> <<>>]
    ELSE [version |-> "V3", key |-> aes_key, iv |-> aes_iv]

\* encrypt_fn(data)
CallEncryptFn(encrypt_fn, data) ==
    IF encrypt_fn.version = "V2" THEN xxtea_encrypt(data, encrypt_fn.key)
    ELSE aes_cbc_encrypt(data, encrypt_fn.key, encrypt_fn.iv)

\* output[:len(encrypted_block)] = encrypted_block
Splice(data, encrypted_block) == encrypted_block \o Drop(data, Len(encrypted_block))

\* the result, given the encrypted first block
FirstBlockResult(data, encrypted_block) ==
    IF Len(encrypted_block) > Len(data) THEN encrypted_block
    ELSE Splice(data, encrypted_block)

\* encrypt_first_block returning the encrypted block alone
FirstBlockDroppingTail(data, encrypt_fn, block_size) ==
    CallEncryptFn(encrypt_fn, Take(data, Min(block_size, Len(data))))

encrypt_first_block(data, encrypt_fn, block_size) ==
    FirstBlockResult(data, CallEncryptFn(encrypt_fn, Take(data, Min(block_size, Len(data)))))

----------------------------------------------------------------------------
(* story.json values.  A uuid is an identifier whose text is UuidText(id).  *)
(* A key of a JSON object that may be absent holds a sequence: <<>> when    *)
(* absent (or null), <<v>> when present; an absent image or audio is "".   *)
(* A missing AES key or IV (None or b'') is <<>>.                          *)

HexChars == <<"0", "1", "2", "3", "4", "5", "6", "7", "8", "9", "a", "b", "c", "d", "e", "f">>
UpperHexChars == <<"0", "1", "2", "3", "4", "5", "6", "7", "8", "9", "A", "B", "C", "D", "E", "F">>

\* the 32 hex digits of a uuid; uuid 1 is aaaaaaaa-aaaa-aaaa-aaaa-aaaaaaaaaaaa
UuidNibbles(id) == [j \in 1..32 |-> (10 * id + (id - 1) * j) % 16]

\* the canonical text, 8-4-4-4-12, in lower case
UuidText(id) ==
    LET hex(lo, hi) == [j \in 1..(hi - lo + 1) |-> HexChars[UuidNibbles(id)[lo + j - 1] + 1]]
    IN  hex(1, 8) \o <<"-">> \o hex(9, 12) \o <<"-">> \o hex(13, 16) \o <<"-">>
        \o hex(17, 20) \o <<"-">> \o hex(21, 32)

\* text.replace('-', '')
RemoveDashes(text) == SelectSeq(text, LAMBDA c : c # "-")
\* text[-8:]
Last8(text) == SubSeq(text, Max(1, Len(text) - 7), Len(text))

IsHexChar(c) == \E k \in 1..16 : HexChars[k] = c \/ UpperHexChars[k] = c
HexVal(c) == (CHOOSE k \in 1..16 : HexChars[k] = c \/ UpperHexChars[k] = c) - 1
\* text.upper()
Upper(text) ==
    [j \in 1..Len(text) |-> IF IsHexChar(text[j]) THEN UpperHexChars[HexVal(text[j]) + 1]
                            ELSE text[j]]

\* bytes.fromhex raises ValueError
FromHexRaises(text) == Len(text) % 2 # 0 \/ \E j \in 1..Len(text) : ~IsHexChar(text[j])
FromHex(text) ==
    [j \in 1..(Len(text) \div 2) |-> 16 * HexVal(text[2 * j - 1]) + HexVal(text[2 * j])]

----------------------------------------------------------------------------
(* struct.pack_into, little-endian.                                        *)

PackU16(x) == <<x % 256, (x \div 256) % 256>>
\* '<h': two's complement
PackI16(x) == PackU16(IF x < 0 THEN x + 65536 ELSE x)
\* '<I' of 0 <= x < 2^31
PackU32(x) == <<x % 256, (x \div 256) % 256, (x \div 65536) % 256, (x \div 16777216) % 256>>
\* '<i': two's complement (for x < 0 the top byte is 256 + floor(x / 2^24))
PackI32(x) ==
    IF x >= 0 THEN PackU32(x)
    ELSE <<x % 256, (x \div 256) % 256, (x \div 65536) % 256, 256 + (x \div 16777216)>>

\* struct.unpack_from('<i', data, off)
ReadI32(data, off) ==
    data[off + 1] + 256 * data[off + 2] + 65536 * data[off + 3]
    + 16777216 * (IF data[off + 4] >= 128 THEN data[off + 4] - 256 ELSE data[off + 4])

ReadI16(data, off) ==
    data[off + 1] + 256 * (IF data[off + 2] >= 128 THEN data[off + 2] - 256 ELSE data[off + 2])

\* the concatenation of the byte strings of a sequence
RECURSIVE Concat(_)
Concat(parts) == IF parts = <<>> THEN <<>> ELSE Head(parts) \o Concat(Tail(parts))

----------------------------------------------------------------------------
(* Asset list builders.                                                    *)

BLANK_NAME == "__BLANK_MP3__"

\* an image list with one entry per image name
BuildImageListDeduplicated(stage_nodes) ==
    LET first == SelectSeq([k \in 1..Len(stage_nodes) |-> k],
                           LAMBDA k : /\ stage_nodes[k].image # ""
                                      /\ \A m \in 1..(k - 1) :
                                            stage_nodes[m].image # stage_nodes[k].image)
    IN  [k \in 1..Len(first) |->
            [nodeUuid |-> stage_nodes[first[k]].uuid, position |-> k - 1,
             name |-> stage_nodes[first[k]].image]]

build_image_asset_list(stage_nodes) ==
    LET with_image == SelectSeq(stage_nodes, LAMBDA node : node.image # "")
    IN  [k \in 1..Len(with_image) |->
            [nodeUuid |-> with_image[k].uuid, position |-> k - 1, name |-> with_image[k].image]]

build_audio_asset_list(stage_nodes) ==
    [k \in 1..Len(stage_nodes) |->
        [nodeUuid |-> stage_nodes[k].uuid,
         position |-> k - 1,
         name     |-> IF stage_nodes[k].audio # "" THEN stage_nodes[k].audio ELSE BLANK_NAME]]

RECURSIVE OptionsBefore(_, _)
OptionsBefore(action_nodes, i) ==
    IF i <= 1 THEN 0
    ELSE OptionsBefore(action_nodes, i - 1) + Len(action_nodes[i - 1].options)

\* an index in which an action without options takes one place of li
BuildListNodesOnePlaceEach(action_nodes) ==
    [i \in 1..Len(action_nodes) |->
        [id               |-> action_nodes[i].id,
         options          |-> action_nodes[i].options,
         position         |-> i - 1,
         absolutePosition |->
             OptionsBefore(action_nodes, i)
             + Cardinality({m \in 1..(i - 1) : action_nodes[m].options = <<>>})]]

build_list_nodes_index(action_nodes) ==
    [i \in 1..Len(action_nodes) |->
        [id               |-> action_nodes[i].id,
         options          |-> action_nodes[i].options,
         position         |-> i - 1,
         absolutePosition |-> OptionsBefore(action_nodes, i)]]

----------------------------------------------------------------------------
(* Binary index generation.                                                *)

NI_HEADER_SIZE == 512
NI_NODE_SIZE == 44

\* a dict filled by a loop over seq: the last entry of a key wins
HasKey(seq, key(_), k) == \E j \in 1..Len(seq) : key(seq[j]) = k
LastWith(seq, key(_), k) ==
    seq[CHOOSE j \in 1..Len(seq) :
            key(seq[j]) = k /\ \A m \in (j + 1)..Len(seq) : key(seq[m]) # k]

AssetName(asset) == asset.name
AssetNodeUuid(asset) == asset.nodeUuid
ListNodeId(ln) == ln.id

\* image_name_to_pos[img], or -1
NiImageIndex(node, image_list) ==
    IF node.image # "" /\ HasKey(image_list, AssetName, node.image)
    THEN LastWith(image_list, AssetName, node.image).position
    ELSE -1

\* the audio index looked up by the name of the audio
NiAudioIndexByName(node, audio_list) ==
    LastWith(audio_list, AssetName, IF node.audio # "" THEN node.audio ELSE BLANK_NAME).position

\* audio_name_to_pos.get(node['uuid'], -1)
NiAudioIndex(node, audio_list) ==
    IF HasKey(audio_list, AssetNodeUuid, node.uuid)
    THEN LastWith(audio_list, AssetNodeUuid, node.uuid).position
    ELSE -1

\* the fields of a transition with the place of the action among the action
\* nodes instead of its absolute position
NiTransitionByPlace(t, list_index) ==
    IF t # <<>> /\ HasKey(list_index, ListNodeId, t[1].actionNode)
    THEN LET ln == LastWith(list_index, ListNodeId, t[1].actionNode)
         IN  PackI32(ln.position) \o PackI32(Len(ln.options))
             \o PackI32(IF t[1].optionIndex = <<>> THEN 0 ELSE t[1].optionIndex[1])
    ELSE PackI32(-1) \o PackI32(-1) \o PackI32(-1)

\* the three fields of a transition
NiTransition(t, list_index) ==
    IF t # <<>> /\ HasKey(list_index, ListNodeId, t[1].actionNode)
    THEN LET ln == LastWith(list_index, ListNodeId, t[1].actionNode)
         IN  PackI32(ln.absolutePosition) \o PackI32(Len(ln.options))
             \o PackI32(IF t[1].optionIndex = <<>> THEN 0 ELSE t[1].optionIndex[1])
    ELSE PackI32(-1) \o PackI32(-1) \o PackI32(-1)

Flag(b) == PackI16(IF b THEN 1 ELSE 0)

\* a node record without its two trailing bytes
NiNodeWithoutPadding(node, image_list, audio_list, list_index) ==
    PackI32(NiImageIndex(node, image_list))
    \o PackI32(NiAudioIndex(node, audio_list))
    \o NiTransition(node.okTransition, list_index)
    \o NiTransition(node.homeTransition, list_index)
    \o Flag(node.controlSettings.wheel) \o Flag(node.controlSettings.ok)
    \o Flag(node.controlSettings.home) \o Flag(node.controlSettings.pause)
    \o Flag(node.controlSettings.autoplay)

NiNode(node, image_list, audio_list, list_index) ==
    PackI32(NiImageIndex(node, image_list))
    \o PackI32(NiAudioIndex(node, audio_list))
    \o NiTransition(node.okTransition, list_index)
    \o NiTransition(node.homeTransition, list_index)
    \o Flag(node.controlSettings.wheel) \o Flag(node.controlSettings.ok)
    \o Flag(node.controlSettings.home) \o Flag(node.controlSettings.pause)
    \o Flag(node.controlSettings.autoplay) \o PackI16(0)

NiHeader(stage_nodes, image_list, audio_list, pack_version) ==
    PackU16(1) \o PackI16(pack_version) \o PackI32(NI_HEADER_SIZE) \o PackI32(NI_NODE_SIZE)
    \o PackI32(Len(stage_nodes)) \o PackI32(Len(image_list)) \o PackI32(Len(audio_list))
    \o <<1>> \o Zeros(NI_HEADER_SIZE - 25)

generate_ni(stage_nodes, action_nodes, image_list, audio_list, list_index, pack_version) ==
    NiHeader(stage_nodes, image_list, audio_list, pack_version)
    \o Concat([i \in 1..Len(stage_nodes) |->
                  NiNode(stage_nodes[i], image_list, audio_list, list_index)])

StageUuid(node) == node.uuid

\* stage_uuid_to_idx.get(option_uuid, 0)
StageIndexOf(stage_nodes, option_uuid) ==
    IF HasKey(stage_nodes, StageUuid, option_uuid)
    THEN (CHOOSE j \in 1..Len(stage_nodes) :
              stage_nodes[j].uuid = option_uuid
              /\ \A m \in (j + 1)..Len(stage_nodes) : stage_nodes[m].uuid # option_uuid) - 1
    ELSE 0

\* an li that holds the options that are stage nodes and nothing else
GenerateLiResolvedOnly(list_index, stage_nodes) ==
    Concat([i \in 1..Len(list_index) |->
        Concat([k \in 1..Len(list_index[i].options) |->
            IF HasKey(stage_nodes, StageUuid, list_index[i].options[k])
            THEN PackU32(StageIndexOf(stage_nodes, list_index[i].options[k]))
            ELSE <<>>])])

generate_li(list_index, stage_nodes) ==
    IF list_index = <<>> THEN <<>>
    ELSE LET last          == list_index[Len(list_index)]
             total_options == last.absolutePosition + Len(last.options)
             written       == Concat([i \in 1..Len(list_index) |->
                                  Concat([k \in 1..Len(list_index[i].options) |->
                                      PackU32(StageIndexOf(stage_nodes, list_index[i].options[k]))])])
         IN  written \o Zeros(4 * total_options - Len(written))

\* paths numbered from 1
AssetPathFromOne(i) ==
    <<48, 48, 48, 92>> \o [d \in 1..8 |-> 48 + (((i + 1) \div (10 ^ (8 - d))) % 10)]

\* f"000\\{i:08d}" in ASCII
AssetPath(i) ==
    <<48, 48, 48, 92>> \o [d \in 1..8 |-> 48 + ((i \div (10 ^ (8 - d))) % 10)]

generate_asset_binary(asset_list) ==
    Concat([k \in 1..Len(asset_list) |-> AssetPath(k - 1)])

\* bytes([decrypted[11], decrypted[10], decrypted[9], decrypted[8], ...])
ReorderKey(decrypted) ==
    <<decrypted[12], decrypted[11], decrypted[10], decrypted[9],
      decrypted[16], decrypted[15], decrypted[14], decrypted[13],
      decrypted[4], decrypted[3], decrypted[2], decrypted[1],
      decrypted[8], decrypted[7], decrypted[6], decrypted[5]>>

v2_compute_specific_key(uuid_bytes) == ReorderKey(xxtea_decrypt(uuid_bytes, XXTEA_KEY_V2))

\* a boot block encrypted under the common key
GenerateBtCommonKey(ri_encrypted, uuid) ==
    xxtea_encrypt(Take(ri_encrypted, Min(64, Len(ri_encrypted))), XXTEA_KEY_V2)

\* the specific key is computed first, then the block is encrypted with it
BtEncrypt(first_block, specific_key) ==
    IF Evaluated(first_block) /\ Evaluated(specific_key)
    THEN xxtea_encrypt(first_block, specific_key) ELSE <<>>

generate_bt_v2(ri_encrypted, uuid) ==
    BtEncrypt(Take(ri_encrypted, Min(64, Len(ri_encrypted))),
              v2_compute_specific_key(uuid))

----------------------------------------------------------------------------
(* ZIP format tests.  An entry name is the sequence of its components      *)
(* between slashes: ".content/AB/ni" is <<".content", "AB", "ni">>, and a  *)
(* directory entry "rf/" is <<"rf", "">>.                                   *)

\* n.startswith('.content/')
InContent(n) == Len(n) >= 2 /\ n[1] = ".content"

\* the refs of is_lunii_pack: parts[1] of the names under .content/
ContentRefs(names) == {n[2] : n \in {m \in names : InContent(m) /\ m[2] # ""}}

\* ref_files: the names under .content/<ref>/ with that prefix removed
RefFiles(names, ref) ==
    {Drop(n, 2) : n \in {m \in names : Len(m) >= 3 /\ m[1] = ".content" /\ m[2] = ref}}

\* one pass of the loop over refs: required files and both asset directories
RefComplete(names, ref) ==
    /\ \A f \in {"ni", "li", "ri", "si"} : <<f>> \in RefFiles(names, ref)
    /\ \E f \in RefFiles(names, ref) : Len(f) >= 2 /\ f[1] = "rf"
    /\ \E f \in RefFiles(names, ref) : Len(f) >= 2 /\ f[1] = "sf"

\* a format test that demands the boot block as well
LuniiPackWithBt(names) ==
    /\ ContentRefs(names) # {}
    /\ \A ref \in ContentRefs(names) :
          RefComplete(names, ref) /\ <<"bt">> \in RefFiles(names, ref)

is_lunii_pack(names) ==
    /\ \E n \in names : InContent(n)
    /\ ContentRefs(names) # {}
    /\ \A ref \in ContentRefs(names) : RefComplete(names, ref)

\* the sets images and audios of validate_studio_pack
StageImages(stage_nodes) ==
    {stage_nodes[i].image : i \in {j \in 1..Len(stage_nodes) : stage_nodes[j].image # ""}}
StageAudios(stage_nodes) ==
    {stage_nodes[i].audio : i \in {j \in 1..Len(stage_nodes) : stage_nodes[j].audio # ""}}

\* name not in names and f"assets/{name}" not in names
AssetMissing(names, name) == <<name>> \notin names /\ <<"assets", name>> \notin names

MissingAssets(names, stage_nodes) ==
    {a \in StageImages(stage_nodes) \cup StageAudios(stage_nodes) : AssetMissing(names, a)}

\* a validation that does not look for the assets
ValidateIgnoringAssets(z) ==
    /\ <<"story.json">> \in z.names
    /\ z.story_valid
    /\ z.story.stageNodes # <<>>

\* validate_studio_pack(zip_path)[0]
validate_studio_pack(z) ==
    /\ <<"story.json">> \in z.names
    /\ z.story_valid
    /\ z.story.stageNodes # <<>>
    /\ MissingAssets(z.names, z.story.stageNodes) = {}

\* the message of a failed validation
ValidationMessage(z) ==
    IF <<"story.json">> \notin z.names THEN "story.json manquant"
    ELSE IF ~z.story_valid THEN "story.json invalide"
    ELSE IF z.story.stageNodes = <<>> THEN "Aucun stageNode"
    ELSE "assets manquants"

----------------------------------------------------------------------------
(* Inputs of a conversion.  The work of the imaging library and of the     *)
(* transcoder is outside the repository: a decodable image converts to a   *)
(* byte string that depends on its name, and so does a transcoded audio.   *)

PatternByte(seed, i) == (7 * i + 101 * seed) % 256

AssetSeed(name) ==
    CASE name = "p.png" -> 1 [] name = "q.png" -> 2
      [] name = "a.mp3" -> 3 [] name = "b.mp3" -> 4 [] OTHER -> 5

\* convert_image_to_lunii_bmp(path of name): b'BM' and the rest of the file
BmpFixture(name) ==
    <<66, 77>> \o [i \in 1..(BmpFixtureLen - 2) |-> PatternByte(AssetSeed(name), i)]

\* what ffmpeg leaves in temp_mp3 when it exits with 0
Mp3Fixture(name) ==
    <<255, 251>> \o [i \in 1..(Mp3FixtureLen - 2) |-> PatternByte(AssetSeed(name), i)]

\* ctrl.get(...) with the defaults of generate_ni
DefaultControl ==
    [wheel |-> TRUE, ok |-> TRUE, home |-> TRUE, pause |-> FALSE, autoplay |-> FALSE]

Transition(action_id, option_index) ==
    <<[actionNode |-> action_id, optionIndex |-> option_index]>>

\* the stage nodes a story.json is made of; the uuid is given by the place
StageTemplate(t, uuid) ==
    CASE t = 1 -> [uuid |-> uuid, type |-> "entrypoint", image |-> "p.png", audio |-> "a.mp3",
                   okTransition |-> Transition("A1", <<0>>), homeTransition |-> <<>>,
                   controlSettings |-> DefaultControl]
      [] t = 2 -> [uuid |-> uuid, type |-> "menu", image |-> "p.png", audio |-> "",
                   okTransition |-> Transition("A9", <<>>), homeTransition |-> <<>>,
                   controlSettings |-> DefaultControl]
      [] t = 3 -> [uuid |-> uuid, type |-> "story", image |-> "q.png", audio |-> "b.mp3",
                   okTransition |-> <<>>, homeTransition |-> Transition("A1", <<1>>),
                   controlSettings |-> [DefaultControl EXCEPT !.autoplay = TRUE]]
      [] t = 5 -> [uuid |-> uuid, type |-> "entrypoint", image |-> "p.png", audio |-> "a.mp3",
                   okTransition |-> <<>>, homeTransition |-> <<>>,
                   controlSettings |-> DefaultControl]
      [] t = 6 -> [uuid |-> uuid, type |-> "menu", image |-> "q.png", audio |-> "b.mp3",
                   okTransition |-> Transition("A2", <<0>>),
                   homeTransition |-> Transition("A1", <<1>>),
                   controlSettings |-> DefaultControl]
      [] OTHER -> [uuid |-> uuid, type |-> "menu", image |-> "", audio |-> "a.mp3",
                   okTransition |-> Transition("A1", <<>>), homeTransition |-> <<>>,
                   controlSettings |-> DefaultControl]
Templates == 1..4

\* the action nodes of every story: A1 offers stages 2 and 1, A2 nothing
StoryActions == <<[id |-> "A1", options |-> <<2, 1>>], [id |-> "A2", options |-> <<>>]>>

StoryOf(templates) ==
    [uuid       |-> <<>>,
     version    |-> <<>>,
     title      |-> "Mon Pack",
     stageNodes |-> [k \in 1..Len(templates) |-> StageTemplate(templates[k], k)],
     actionNodes |-> StoryActions]

\* json.load of a story.json without stage nodes
EmptyStory == [StoryOf(<<>>) EXCEPT !.actionNodes = <<>>]

TemplateSeqs == UNION {[1..n -> Templates] : n \in 1..MaxStages}

\* the ZIP of a studio pack: story.json and the assets under assets/
StudioNames(story) ==
    {<<"story.json">>}
    \cup {<<"assets", a>> : a \in StageImages(story.stageNodes) \cup StageAudios(story.stageNodes)}

\* the entries of a native tree .content/<ref>/ with the given members
TreeMembers ==
    {<<"ni">>, <<"li">>, <<"ri">>, <<"si">>, <<"rf", "000", "00000000">>, <<"sf", "000", "00000000">>}
Tree(ref, members) == {<<".content", ref>> \o m : m \in members}

ConfigV2 == [version |-> "V2", aes_key |-> <<>>, aes_iv |-> <<>>]
ConfigV3 == [version |-> "V3", aes_key |-> AES_KEY, aes_iv |-> AES_IV]
GoodEnv == [ffmpeg |-> TRUE, bad_images |-> {}]

MkInput(names, story_valid, story, cfg, e) ==
    [zip |-> [names |-> names, story_valid |-> story_valid, story |-> story],
     config |-> cfg, env |-> e]

\* every story of at most MaxStages stages, complete, under both ciphers
StoryInputs ==
    {MkInput(StudioNames(StoryOf(ts)), TRUE, StoryOf(ts), cfg, GoodEnv) :
        ts \in TemplateSeqs, cfg \in {ConfigV2, ConfigV3}}

\* stories with and without the uuid and version keys of story.json: a lone
\* entrypoint without transitions, an entrypoint that is not the first stage,
\* and a stage with both transitions
HeaderStory(ts, uuid, version) == [StoryOf(ts) EXCEPT !.uuid = uuid, !.version = version]
\* a story.json whose two stage nodes carry the same uuid
TwinStory == [StoryOf(<<1, 3>>) EXCEPT !.stageNodes[2].uuid = 1]
HeaderInputs ==
    {MkInput(StudioNames(StoryOf(ts)), TRUE, HeaderStory(ts, uuid, version), cfg, GoodEnv) :
        ts \in {<<5>>, <<2, 1>>, <<1, 6>>}, uuid \in {<<>>, <<5>>},
        version \in {<<>>, <<1>>, <<3>>}, cfg \in {ConfigV2, ConfigV3}}
    \cup {MkInput(StudioNames(TwinStory), TRUE, TwinStory, ConfigV2, GoodEnv)}

\* stories with other action nodes: none, one with a single option, and
\* actions without options before and between actions with options
ActionNode(id, options) == [id |-> id, options |-> options]
ActionLists ==
    {<<>>,
     <<ActionNode("A1", <<1>>)>>,
     <<ActionNode("A0", <<>>), ActionNode("A1", <<2, 1>>), ActionNode("A2", <<1>>)>>,
     <<ActionNode("A1", <<2, 1>>), ActionNode("A3", <<>>), ActionNode("A2", <<1, 1, 2>>)>>}
ActionStory(ts, actions) == [StoryOf(ts) EXCEPT !.actionNodes = actions]
ActionInputs ==
    {MkInput(StudioNames(StoryOf(ts)), TRUE, ActionStory(ts, actions), cfg, GoodEnv) :
        ts \in {<<1>>, <<1, 6>>}, actions \in ActionLists, cfg \in {ConfigV2, ConfigV3}}

\* one story under every configuration and environment
ConfigInputs ==
    {MkInput(StudioNames(StoryOf(<<1, 3>>)), TRUE, StoryOf(<<1, 3>>),
             [version |-> v, aes_key |-> k, aes_iv |-> iv],
             [ffmpeg |-> f, bad_images |-> bad]) :
        v \in {"V1", "V2", "V3"}, k \in {<<>>, AES_KEY}, iv \in {<<>>, AES_IV},
        f \in BOOLEAN, bad \in SUBSET {"p.png", "q.png"}}

\* studio ZIPs with entries missing or a story.json that does not parse
StudioZipInputs ==
    {MkInput(names, st[1], st[2], ConfigV2, GoodEnv) :
        names \in SUBSET {<<"story.json">>, <<"p.png">>, <<"assets", "p.png">>,
                          <<"a.mp3">>, <<"assets", "a.mp3">>},
        st \in {<<TRUE, StoryOf(<<1>>)>>, <<FALSE, EmptyStory>>, <<TRUE, EmptyStory>>}}

\* ZIPs with native trees: one tree of any members, or a complete tree next
\* to a second one, with or without the files of a studio pack
SecondTrees ==
    {{}, Tree("CD", TreeMembers), Tree("CD", {<<"ni">>}), {<<".content", "">>},
     {<<"README">>}}
NativeZipInputs ==
    {MkInput(Tree("AB", members), FALSE, EmptyStory, ConfigV2, GoodEnv) :
        members \in SUBSET TreeMembers}
    \cup {MkInput(Tree("AB", TreeMembers) \cup second \cup studio, studio # {},
                  IF studio = {} THEN EmptyStory ELSE StoryOf(<<1>>), ConfigV2, GoodEnv) :
            second \in SecondTrees, studio \in {{}, StudioNames(StoryOf(<<1>>))}}

Inputs ==
    StoryInputs \cup HeaderInputs \cup ActionInputs \cup ConfigInputs \cup StudioZipInputs
    \cup NativeZipInputs

\* encrypt_first_block(data, encrypt_fn) of _do_convert; the results for the
\* asset contents above are tabulated once
KnownPlain ==
    {BmpFixture("p.png"), BmpFixture("q.png"), BLANK_MP3, Mp3Fixture("a.mp3"), Mp3Fixture("b.mp3")}
KnownFns ==
    {_get_encrypt_fn("V2", <<>>, <<>>), _get_encrypt_fn("V3", AES_KEY, AES_IV)}
FirstBlockTable ==
    [d \in KnownPlain, f \in KnownFns |-> encrypt_first_block(d, f, ENCRYPTION_BLOCK_SIZE)]
EncryptAsset(data, encrypt_fn) ==
    IF data \in KnownPlain /\ encrypt_fn \in KnownFns THEN FirstBlockTable[data, encrypt_fn]
    ELSE encrypt_first_block(data, encrypt_fn, ENCRYPTION_BLOCK_SIZE)

----------------------------------------------------------------------------
(* LuniiPackConverter.convert and _do_convert.  Progress values are in     *)
(* 1200ths, which is exact for every fraction the loops compute.           *)

ZIP_PATH == "pack.zip"
\* f"{base}_lunii.zip" for output_path None
DefaultOutputPath == "pack_lunii.zip"

EmptyOutput == [ref |-> <<>>, rf |-> <<>>, sf |-> <<>>, files |-> <<>>, md |-> <<>>]
NoZip == [state |-> "absent", tree |-> EmptyOutput]

\* the arc_name of every file os.walk finds under the output directory
ArcNames(tree) ==
    {<<".content", tree.ref, "rf", "000", i>> : i \in DOMAIN tree.rf}
    \cup {<<".content", tree.ref, "sf", "000", i>> : i \in DOMAIN tree.sf}
    \cup {<<".content", tree.ref, f>> : f \in DOMAIN tree.files}
    \cup (IF tree.md = <<>> THEN {} ELSE {<<".content", tree.ref, "md">>})

\* story.get('uuid') or stage_nodes[0]['uuid']
story_uuid(story) ==
    IF story.uuid # <<>> THEN UuidText(story.uuid[1]) ELSE UuidText(story.stageNodes[1].uuid)
\* the last eight characters of the uuid as they are written
PackRefLowerCase(story) == Last8(RemoveDashes(story_uuid(story)))

\* story_uuid.replace('-', '')[-8:].upper()
pack_ref(story) == Upper(Last8(RemoveDashes(story_uuid(story))))
\* story.get('version', 2)
pack_version(story) == IF story.version = <<>> THEN 2 ELSE story.version[1]

\* self._update_progress(value, message)
Emit(p, value, message) == Append(p, <<value, message>>)

EncryptFn == _get_encrypt_fn(config.version, config.aes_key, config.aes_iv)

\* an exception caught by convert with the scratch directory left in place
AbortKeepingScratch(p, message) ==
    /\ UNCHANGED tmpdir
    /\ progress' = Emit(p, 0, message)
    /\ result' = None_
    /\ pc' = "done"

\* an exception caught by convert without a word to the progress callback
AbortWithoutEvent(p, message) ==
    /\ tmpdir' = "deleted"
    /\ progress' = p
    /\ result' = None_
    /\ pc' = "done"

\* an exception leaves the with block, which deletes the scratch directory,
\* and is caught by convert
Abort(p, message) ==
    /\ tmpdir' = "deleted"
    /\ progress' = Emit(p, 0, message)
    /\ result' = None_
    /\ pc' = "done"

\* convert: the pack is already native
ConvertAlreadyLunii ==
    /\ pc = "start"
    /\ is_lunii_pack(zip.names)
    /\ progress' = Emit(Emit(progress, 0, "check"), 1200, "already")
    /\ result' = ZIP_PATH
    /\ pc' = "done"
    /\ UNCHANGED <<fvars, inputs, views, tmpdir, idx, converted_audio_cache,
                   ffmpeg_calls, output_dir, out_zip>>

\* convert: validation fails
ConvertInvalid ==
    /\ pc = "start"
    /\ ~is_lunii_pack(zip.names)
    /\ ~validate_studio_pack(zip)
    /\ progress' = Emit(Emit(Emit(progress, 0, "check"), 60, "validate"),
                        0, ValidationMessage(zip))
    /\ result' = None_
    /\ pc' = "done"
    /\ UNCHANGED <<fvars, inputs, views, tmpdir, idx, converted_audio_cache,
                   ffmpeg_calls, output_dir, out_zip>>

\* convert: validation passes and the scratch directory is created
ConvertEnter ==
    /\ pc = "start"
    /\ ~is_lunii_pack(zip.names)
    /\ validate_studio_pack(zip)
    /\ progress' = Emit(Emit(Emit(progress, 0, "check"), 60, "validate"), 120, "extract")
    /\ tmpdir' = "exists"
    /\ pc' = "extract"
    /\ UNCHANGED <<fvars, inputs, views, idx, converted_audio_cache,
                   ffmpeg_calls, output_dir, out_zip, result>>

\* _do_convert up to the image loop
DoConvertSetup ==
    /\ pc = "extract"
    /\ ~GetEncryptFnRaises(config.version, config.aes_key, config.aes_iv)
    /\ output_dir' = [EmptyOutput EXCEPT !.ref = pack_ref(zip.story)]
    /\ image_assets' = build_image_asset_list(zip.story.stageNodes)
    /\ audio_assets' = build_audio_asset_list(zip.story.stageNodes)
    /\ list_nodes' = build_list_nodes_index(zip.story.actionNodes)
    /\ progress' = Emit(Emit(progress, 180, "index"), 240, "images")
    /\ idx' = 0
    /\ pc' = "images"
    /\ UNCHANGED <<fvars, inputs, tmpdir, converted_audio_cache, ffmpeg_calls,
                   out_zip, result>>

\* _get_encrypt_fn raises ValueError
DoConvertNoCipher ==
    /\ pc = "extract"
    /\ GetEncryptFnRaises(config.version, config.aes_key, config.aes_iv)
    /\ Abort(progress, "encrypt_fn")
    /\ UNCHANGED <<fvars, inputs, views, idx, converted_audio_cache, ffmpeg_calls,
                   output_dir, out_zip>>

\* an image loop that takes every image for a missing one
ImageTakenForMissing ==
    /\ pc = "images"
    /\ idx < Len(image_assets)
    /\ idx' = idx + 1
    /\ UNCHANGED <<fvars, inputs, views, pc, progress, tmpdir, converted_audio_cache,
                   ffmpeg_calls, output_dir, out_zip, result>>

\* one pass of the image loop
ImageConverted ==
    /\ pc = "images"
    /\ idx < Len(image_assets)
    /\ \/ AssetMissing(zip.names, image_assets[idx + 1].name)
       \/ image_assets[idx + 1].name \notin env.bad_images
    /\ IF AssetMissing(zip.names, image_assets[idx + 1].name)
       THEN UNCHANGED <<output_dir, progress>>
       ELSE /\ output_dir' =
                 [output_dir EXCEPT !.rf = @ @@ (idx :>
                     EncryptAsset(BmpFixture(image_assets[idx + 1].name), EncryptFn))]
            /\ progress' = Emit(progress,
                                240 + (240 * (idx + 1)) \div Max(Len(image_assets), 1), "image")
    /\ idx' = idx + 1
    /\ UNCHANGED <<fvars, inputs, views, pc, tmpdir, converted_audio_cache, ffmpeg_calls,
                   out_zip, result>>

\* an image loop that logs the image it cannot decode and goes on
ImageDecodeSkipped ==
    /\ pc = "images"
    /\ idx < Len(image_assets)
    /\ image_assets[idx + 1].name \in env.bad_images
    /\ ~AssetMissing(zip.names, image_assets[idx + 1].name)
    /\ idx' = idx + 1
    /\ UNCHANGED <<fvars, inputs, views, pc, progress, tmpdir, converted_audio_cache,
                   ffmpeg_calls, output_dir, out_zip, result>>

\* Image.open raises on a file it cannot decode
ImageDecodeError ==
    /\ pc = "images"
    /\ idx < Len(image_assets)
    /\ image_assets[idx + 1].name \in env.bad_images
    /\ ~AssetMissing(zip.names, image_assets[idx + 1].name)
    /\ Abort(progress, "image")
    /\ UNCHANGED <<fvars, inputs, views, idx, converted_audio_cache, ffmpeg_calls,
                   output_dir, out_zip>>

ImagesDone ==
    /\ pc = "images"
    /\ idx = Len(image_assets)
    /\ progress' = Emit(progress, 480, "audios")
    /\ converted_audio_cache' = <<>>
    /\ idx' = 0
    /\ pc' = "audio"
    /\ UNCHANGED <<fvars, inputs, views, tmpdir, ffmpeg_calls, output_dir, out_zip, result>>

\* a conversion that reads temp_mp3 whatever the transcoder returned
ConvertedAudioUnchecked(names, name, exit) ==
    IF ~AssetMissing(names, name) THEN Mp3Fixture(name) ELSE BLANK_MP3

\* the mp3 bytes of an asset that is not cached: BLANK_MP3 unless the file
\* exists and convert_audio_to_lunii_mp3 returned True
ConvertedAudio(names, name, exit) ==
    IF ~AssetMissing(names, name) /\ exit = "0" THEN Mp3Fixture(name) ELSE BLANK_MP3

\* the audio loop reporting its progress on the scale of the image loop
WriteAudioOnImageScale(mp3_data) ==
    /\ output_dir' = [output_dir EXCEPT !.sf = @ @@ (idx :> EncryptAsset(mp3_data, EncryptFn))]
    /\ progress' = Emit(progress,
                        240 + (240 * (idx + 1)) \div Max(Len(audio_assets), 1), "audio")
    /\ idx' = idx + 1
    /\ UNCHANGED <<fvars, inputs, views, pc, tmpdir, out_zip, result>>

\* the end of a pass of the audio loop: encrypt, write sf/000/<idx>, report
WriteAudio(mp3_data) ==
    /\ output_dir' = [output_dir EXCEPT !.sf = @ @@ (idx :> EncryptAsset(mp3_data, EncryptFn))]
    /\ progress' = Emit(progress,
                        480 + (360 * (idx + 1)) \div Max(Len(audio_assets), 1), "audio")
    /\ idx' = idx + 1
    /\ UNCHANGED <<fvars, inputs, views, pc, tmpdir, out_zip, result>>

\* a stage without audio
AudioBlank ==
    /\ pc = "audio"
    /\ idx < Len(audio_assets)
    /\ audio_assets[idx + 1].name = BLANK_NAME
    /\ WriteAudio(BLANK_MP3)
    /\ UNCHANGED <<converted_audio_cache, ffmpeg_calls>>

\* a name converted by an earlier pass is transcoded again
AudioCachedRetranscoded ==
    /\ pc = "audio"
    /\ idx < Len(audio_assets)
    /\ audio_assets[idx + 1].name # BLANK_NAME
    /\ audio_assets[idx + 1].name \in DOMAIN converted_audio_cache
    /\ ffmpeg_calls' = Append(ffmpeg_calls, [name |-> audio_assets[idx + 1].name, exit |-> "0"])
    /\ WriteAudio(converted_audio_cache[audio_assets[idx + 1].name])
    /\ UNCHANGED converted_audio_cache

\* a name converted by an earlier pass
AudioCached ==
    /\ pc = "audio"
    /\ idx < Len(audio_assets)
    /\ audio_assets[idx + 1].name # BLANK_NAME
    /\ audio_assets[idx + 1].name \in DOMAIN converted_audio_cache
    /\ WriteAudio(converted_audio_cache[audio_assets[idx + 1].name])
    /\ UNCHANGED <<converted_audio_cache, ffmpeg_calls>>

\* a name met for the first time: subprocess.run(['ffmpeg', ...]) ends with
\* the given exit, "notfound" being the FileNotFoundError of a missing ffmpeg
AudioFirst(exit) ==
    /\ pc = "audio"
    /\ idx < Len(audio_assets)
    /\ audio_assets[idx + 1].name # BLANK_NAME
    /\ audio_assets[idx + 1].name \notin DOMAIN converted_audio_cache
    /\ (exit = "notfound") = ~env.ffmpeg
    /\ ffmpeg_calls' =
          IF AssetMissing(zip.names, audio_assets[idx + 1].name) THEN ffmpeg_calls
          ELSE Append(ffmpeg_calls, [name |-> audio_assets[idx + 1].name, exit |-> exit])
    /\ converted_audio_cache' =
          converted_audio_cache @@ (audio_assets[idx + 1].name :>
              ConvertedAudio(zip.names, audio_assets[idx + 1].name, exit))
    /\ WriteAudio(ConvertedAudio(zip.names, audio_assets[idx + 1].name, exit))

AudioTranscoded == AudioFirst("0")
AudioTranscodeFailed == AudioFirst("nonzero")
AudioTranscoderMissing == AudioFirst("notfound")

AudiosDone ==
    /\ pc = "audio"
    /\ idx = Len(audio_assets)
    /\ progress' = Emit(progress, 900, "indices")
    /\ pc' = "indices"
    /\ UNCHANGED <<fvars, inputs, views, tmpdir, idx, converted_audio_cache, ffmpeg_calls,
                   output_dir, out_zip, result>>

\* bytes.fromhex(story_uuid.replace('-', ''))
uuid_bytes(story) == FromHex(RemoveDashes(story_uuid(story)))

\* bt_data of _do_convert (a uuid is 32 hexadecimal digits, so that neither
\* bytes.fromhex nor v2_compute_specific_key raises)
BtData(version, story, ri_encrypted) ==
    IF version = "V2" THEN generate_bt_v2(ri_encrypted, uuid_bytes(story)) ELSE Zeros(64)

\* ni_data, li_data, ri_data and si_data of _do_convert
PlainIndex(name) ==
    CASE name = "ni" -> generate_ni(zip.story.stageNodes, zip.story.actionNodes, image_assets,
                                    audio_assets, list_nodes, pack_version(zip.story))
      [] name = "li" -> generate_li(list_nodes, zip.story.stageNodes)
      [] name = "ri" -> generate_asset_binary(image_assets)
      [] OTHER -> generate_asset_binary(audio_assets)

\* li_encrypted, ri_encrypted and si_encrypted
EncryptedIndex ==
    [name \in {"li", "ri", "si"} |->
        encrypt_first_block(PlainIndex(name), EncryptFn, ENCRYPTION_BLOCK_SIZE)]

\* the five index files, given the encrypted ones and bt_data
IndexFiles(encrypted, bt_data) ==
    ("ni" :> PlainIndex("ni")) @@ encrypted @@ ("bt" :> bt_data)

\* _do_convert from the index generation to the writing of ni, li, ri, si, bt
GenerateIndices ==
    /\ pc = "indices"
    /\ output_dir' = [output_dir EXCEPT !.files =
          IndexFiles(EncryptedIndex, BtData(config.version, zip.story, EncryptedIndex["ri"]))]
    /\ progress' = Emit(progress, 1020, "metadata")
    /\ pc' = "metadata"
    /\ UNCHANGED <<fvars, inputs, views, tmpdir, idx, converted_audio_cache, ffmpeg_calls,
                   out_zip, result>>

\* the md file
WriteMetadata ==
    /\ pc = "metadata"
    /\ output_dir' = [output_dir EXCEPT !.md =
          <<<<"title", zip.story.title>>, <<"uuid", story_uuid(zip.story)>>,
            <<"ref", pack_ref(zip.story)>>, <<"packType", "custom">>>>]
    /\ progress' = Emit(progress, 1080, "package")
    /\ pc' = "package"
    /\ UNCHANGED <<fvars, inputs, views, tmpdir, idx, converted_audio_cache, ffmpeg_calls,
                   out_zip, result>>

\* zipfile.ZipFile(output_path, 'w') creates the file at output_path
PackageOpen ==
    /\ pc = "package"
    /\ out_zip' = [state |-> "partial", tree |-> EmptyOutput]
    /\ pc' = "zipping"
    /\ UNCHANGED <<fvars, inputs, views, progress, tmpdir, idx, converted_audio_cache,
                   ffmpeg_calls, output_dir, result>>

\* every file of the output tree is written and the archive is closed
PackageWritten ==
    /\ pc = "zipping"
    /\ out_zip' = [state |-> "complete", tree |-> output_dir]
    /\ progress' = Emit(progress, 1200, "done")
    /\ tmpdir' = "deleted"
    /\ result' = DefaultOutputPath
    /\ pc' = "done"
    /\ UNCHANGED <<fvars, inputs, views, idx, converted_audio_cache, ffmpeg_calls,
                   output_dir>>

\* an OSError while the archive is written (disk full, volume removed)
PackageWriteError ==
    /\ pc = "zipping"
    /\ Abort(progress, "io")
    /\ UNCHANGED <<fvars, inputs, views, idx, converted_audio_cache, ffmpeg_calls,
                   output_dir, out_zip>>

\* the harness variables while a conversion runs, and conversely
\* no image is being encoded
RleIdle == [pattern |-> 0, height |-> 0, y |-> 0, x |-> 0, run_length |-> 0, run_color |-> 0]

HarnessIdle ==
    /\ fpc = "idle" /\ fdata = <<>> /\ ffn = _get_encrypt_fn("V2", <<>>, <<>>) /\ fout = <<>>
    /\ fuuid = 1 /\ fbt = <<>>
    /\ rle = RleIdle

RunStart ==
    /\ progress = <<>>
    /\ tmpdir = "none"
    /\ image_assets = <<>> /\ audio_assets = <<>> /\ list_nodes = <<>>
    /\ idx = 0
    /\ converted_audio_cache = <<>>
    /\ ffmpeg_calls = <<>>
    /\ output_dir = EmptyOutput
    /\ out_zip = NoZip
    /\ result = "pending"

Init ==
    /\ HarnessIdle
    /\ \E inp \in Inputs : zip = inp.zip /\ config = inp.config /\ env = inp.env
    /\ pc = "start"
    /\ RunStart

Next ==
    \/ ConvertAlreadyLunii \/ ConvertInvalid \/ ConvertEnter
    \/ DoConvertSetup \/ DoConvertNoCipher
    \/ ImageConverted \/ ImageDecodeError \/ ImagesDone
    \/ AudioBlank \/ AudioCached
    \/ AudioTranscoded \/ AudioTranscodeFailed \/ AudioTranscoderMissing
    \/ AudiosDone
    \/ GenerateIndices \/ WriteMetadata
    \/ PackageOpen \/ PackageWritten \/ PackageWriteError

Spec == Init /\ [][Next]_vars

----------------------------------------------------------------------------
(* The cipher harness: a byte string and an encryption function are drawn, *)
(* and encrypt_first_block is applied to them.                             *)

MkData(len, seed) == [i \in 1..len |-> PatternByte(seed, i)]

CipherLens ==
    (0..MaxShortLen)
    \cup ((ENCRYPTION_BLOCK_SIZE - 2)..(ENCRYPTION_BLOCK_SIZE + MaxTailLen))

CipherFns ==
    {_get_encrypt_fn("V2", <<>>, <<>>), _get_encrypt_fn("V3", AES_KEY, AES_IV)}

\* no conversion runs while the harness does
ConverterIdle ==
    /\ zip = MkInput({}, FALSE, EmptyStory, ConfigV2, GoodEnv).zip
    /\ config = ConfigV2
    /\ env = GoodEnv
    /\ pc = "idle"
    /\ RunStart

CipherInit ==
    /\ ConverterIdle
    /\ fpc = "input"
    /\ fdata \in {MkData(len, seed) : len \in CipherLens, seed \in 0..MaxSeed}
    /\ ffn \in CipherFns
    /\ fout = <<>>
    /\ fuuid = 1 /\ fbt = <<>>
    /\ rle = RleIdle

EncryptFirstBlockCall ==
    /\ fpc = "input"
    /\ fout' = encrypt_first_block(fdata, ffn, ENCRYPTION_BLOCK_SIZE)
    /\ fpc' = "efb"
    /\ UNCHANGED <<fdata, ffn, fuuid, fbt, rle, cvars>>

CipherNext == EncryptFirstBlockCall

SpecCipher == CipherInit /\ [][CipherNext]_vars

----------------------------------------------------------------------------
(* The boot block alone: the ri of a V2 pack of some number of images is   *)
(* encrypted and generate_bt_v2 is applied to it, as _do_convert does.     *)

\* an image asset list of n entries
ImageListOf(n) == [k \in 1..n |-> [nodeUuid |-> k, position |-> k - 1, name |-> "p.png"]]

BtInit ==
    /\ rle = RleIdle
    /\ ConverterIdle
    /\ fpc = "ri"
    /\ \E n \in 0..MaxImages : fdata = generate_asset_binary(ImageListOf(n))
    /\ ffn = _get_encrypt_fn("V2", <<>>, <<>>)
    /\ fuuid \in 1..MaxUuid
    /\ fout = <<>>
    /\ fbt = <<>>

\* ri_encrypted = encrypt_first_block(ri_data, encrypt_fn), then
\* bt_data = generate_bt_v2(ri_encrypted, uuid_bytes)
BtOf(ri_encrypted, uuid) ==
    [ri |-> ri_encrypted, bt |-> generate_bt_v2(ri_encrypted, FromHex(RemoveDashes(UuidText(uuid))))]

BtApply(r) ==
    /\ fout' = r.ri
    /\ fbt' = r.bt

GenerateBtCall ==
    /\ fpc = "ri"
    /\ BtApply(BtOf(encrypt_first_block(fdata, ffn, ENCRYPTION_BLOCK_SIZE), fuuid))
    /\ fpc' = "bt"
    /\ UNCHANGED <<fdata, ffn, fuuid, rle, cvars>>

BtNext == GenerateBtCall

SpecBt == BtInit /\ [][BtNext]_vars

----------------------------------------------------------------------------
(* The XXTEA harness: a buffer and a 16-byte key are drawn, xxtea_encrypt  *)
(* is applied to the buffer and xxtea_decrypt to its result.               *)

RoundTripKeys == {XXTEA_KEY_V2, AES_KEY}

XxteaInit ==
    /\ ConverterIdle
    /\ fpc = "plain"
    /\ fdata \in {MkData(len, seed) : len \in 0..MaxRoundTripLen, seed \in 0..MaxSeed}
    /\ \E key \in RoundTripKeys : ffn = [version |-> "V2", key |-> key, iv |-> <<>>]
    /\ fout = <<>>
    /\ fuuid = 1 /\ fbt = <<>>
    /\ rle = RleIdle

XxteaEncryptCall ==
    /\ fpc = "plain"
    /\ fout' = xxtea_encrypt(fdata, ffn.key)
    /\ fpc' = "encrypted"
    /\ UNCHANGED <<fdata, ffn, fuuid, fbt, rle, cvars>>

XxteaDecryptCall ==
    /\ fpc = "encrypted"
    /\ fbt' = xxtea_decrypt(fout, ffn.key)
    /\ fpc' = "decrypted"
    /\ UNCHANGED <<fdata, ffn, fuuid, fout, rle, cvars>>

XxteaNext == XxteaEncryptCall \/ XxteaDecryptCall

SpecXxtea == XxteaInit /\ [][XxteaNext]_vars

----------------------------------------------------------------------------
(* The image codec: the RLE4 loops of convert_image_to_lunii_bmp over the   *)
(* pixels of an image of LUNII_IMAGE_WIDTH columns, one step for each pass *)
(* of the inner loop.  fdata is bmp_data, fout the BMP file returned.  The *)
(* images have 1..MaxRows rows instead of LUNII_IMAGE_HEIGHT.              *)

LUNII_IMAGE_WIDTH == 320

\* pixels[y * width + x] of img.getdata(), after the conversion to 'L' and
\* the vertical flip: a plain row, single pixels, values that differ inside
\* one of the 16 levels, blocks of seven, a run of 256, and a gradient
Pixel(pattern, x, y) ==
    CASE pattern = 1 -> 200
      [] pattern = 2 -> IF x % 2 = 0 THEN 0 ELSE 255
      [] pattern = 3 -> IF x < 300 THEN 16 + ((x + y) % 16) ELSE 255
      [] pattern = 4 -> ((x \div 7) * 40 + 16 * y) % 256
      [] pattern = 5 -> IF x < 256 THEN 7 ELSE 240 + y
      [] OTHER -> (x * (y + 1) + (x \div 64) * 16 * pattern) % 256

\* pixels[row_start + x] // 16
Quantize(byte) == byte \div 16

\* bmp_data.append(run_length); bmp_data.append((run_color << 4) | run_color)
RunBytes(run_length, run_color) == <<run_length, 16 * run_color + run_color>>

\* the 16 palette entries: int((255 / 16) * i) thrice and a zero
BmpPalette ==
    Concat([i \in 1..16 |->
        <<(255 * (i - 1)) \div 16, (255 * (i - 1)) \div 16, (255 * (i - 1)) \div 16, 0>>])

\* the file built around bmp_data: file header, DIB header, palette, pixels
BmpFile(width, height, bmp_data) ==
    <<66, 77>> \o PackU32(54 + 64 + Len(bmp_data)) \o Zeros(4) \o PackU32(54 + 64)
    \o PackU32(40) \o PackI32(width) \o PackI32(height) \o PackU16(1) \o PackU16(4)
    \o PackU32(2) \o PackU32(Len(bmp_data)) \o Zeros(16)
    \o BmpPalette \o bmp_data

RleInit ==
    /\ ConverterIdle
    /\ fpc = "rle"
    /\ fdata = <<>> /\ fout = <<>>
    /\ ffn = _get_encrypt_fn("V2", <<>>, <<>>)
    /\ fuuid = 1 /\ fbt = <<>>
    /\ rle \in {[pattern |-> p, height |-> h, y |-> 0, x |-> 0,
                 run_length |-> 0, run_color |-> 0] :
                    p \in 1..MaxPattern, h \in 1..MaxRows}

\* a pass of the loop over x that lets a run grow without limit
RlePixelUncapped ==
    /\ fpc = "rle"
    /\ rle.y < rle.height
    /\ rle.x < LUNII_IMAGE_WIDTH
    /\ LET grayscale_value == Quantize(Pixel(rle.pattern, rle.x, rle.y))
       IN  IF rle.x = 0
           THEN /\ rle' = [rle EXCEPT !.run_length = 1, !.run_color = grayscale_value,
                                      !.x = 1]
                /\ UNCHANGED fdata
           ELSE IF rle.run_color = grayscale_value
           THEN /\ rle' = [rle EXCEPT !.run_length = @ + 1, !.x = @ + 1]
                /\ UNCHANGED fdata
           ELSE /\ fdata' = fdata \o RunBytes(rle.run_length, rle.run_color)
                /\ rle' = [rle EXCEPT !.run_length = 1, !.run_color = grayscale_value,
                                      !.x = @ + 1]
    /\ UNCHANGED <<fpc, ffn, fout, fuuid, fbt, cvars>>

\* one pass of the loop over x
RlePixel ==
    /\ fpc = "rle"
    /\ rle.y < rle.height
    /\ rle.x < LUNII_IMAGE_WIDTH
    /\ LET grayscale_value == Quantize(Pixel(rle.pattern, rle.x, rle.y))
       IN  IF rle.x = 0
           THEN /\ rle' = [rle EXCEPT !.run_length = 1, !.run_color = grayscale_value,
                                      !.x = 1]
                /\ UNCHANGED fdata
           ELSE IF rle.run_color = grayscale_value /\ rle.run_length < 255
           THEN /\ rle' = [rle EXCEPT !.run_length = @ + 1, !.x = @ + 1]
                /\ UNCHANGED fdata
           ELSE /\ fdata' = fdata \o RunBytes(rle.run_length, rle.run_color)
                /\ rle' = [rle EXCEPT !.run_length = 1, !.run_color = grayscale_value,
                                      !.x = @ + 1]
    /\ UNCHANGED <<fpc, ffn, fout, fuuid, fbt, cvars>>

\* the end of a row: the last run, and the end-of-line marker but for the
\* last row
RleRowEnd ==
    /\ fpc = "rle"
    /\ rle.y < rle.height
    /\ rle.x = LUNII_IMAGE_WIDTH
    /\ fdata' = fdata \o RunBytes(rle.run_length, rle.run_color)
                \o (IF rle.y < rle.height - 1 THEN <<0, 0>> ELSE <<>>)
    /\ rle' = [rle EXCEPT !.y = @ + 1, !.x = 0, !.run_length = 0, !.run_color = 0]
    /\ UNCHANGED <<fpc, ffn, fout, fuuid, fbt, cvars>>

\* the end-of-bitmap marker and the file
RleFinish ==
    /\ fpc = "rle"
    /\ rle.y = rle.height
    /\ fdata' = fdata \o <<0, 1>>
    /\ fout' = BmpFile(LUNII_IMAGE_WIDTH, rle.height, fdata \o <<0, 1>>)
    /\ fpc' = "bmp"
    /\ UNCHANGED <<ffn, fuuid, fbt, rle, cvars>>

RleNext == RlePixel \/ RleRowEnd \/ RleFinish

SpecRle == RleInit /\ [][RleNext]_vars

----------------------------------------------------------------------------
(* Properties of the conversion.                                           *)

\* validate_studio_pack has been called
ValidationRan == \E k \in 1..Len(progress) : progress[k][2] = "validate"

\* the conversion has left without a scratch directory or an output
NothingWritten == tmpdir = "none" /\ out_zip = NoZip /\ output_dir = EmptyOutput

\* C1: when every tree .content/<REF>/ of the input ZIP (and there is one)
\* holds ni, li, ri, si and an entry under rf/ and under sf/, convert returns
\* the input path after the format test alone and writes nothing.
C1_EveryTreeNative ==
    (/\ pc = "done"
     /\ ContentRefs(zip.names) # {}
     /\ \A ref \in ContentRefs(zip.names) : RefComplete(zip.names, ref))
    => (result = ZIP_PATH /\ ~ValidationRan /\ NothingWritten)

\* C1 as the spec states it: one such tree is enough.
C1_SomeTreeNative ==
    (pc = "done" /\ \E ref \in ContentRefs(zip.names) : RefComplete(zip.names, ref))
    => (result = ZIP_PATH /\ ~ValidationRan /\ NothingWritten)

C1_TwoNativeTrees ==
    /\ pc = "done"
    /\ Cardinality(ContentRefs(zip.names)) = 2
    /\ \A ref \in ContentRefs(zip.names) : RefComplete(zip.names, ref)
    /\ result = ZIP_PATH

\* the three defects of a studio pack the validation names
StoryJsonAbsent(z) == <<"story.json">> \notin z.names
AssetAbsent(z) ==
    \E i \in 1..Len(z.story.stageNodes) :
        \/ z.story.stageNodes[i].image # "" /\ AssetMissing(z.names, z.story.stageNodes[i].image)
        \/ z.story.stageNodes[i].audio # "" /\ AssetMissing(z.names, z.story.stageNodes[i].audio)
InvalidStudioPack(z) == StoryJsonAbsent(z) \/ ~z.story_valid \/ AssetAbsent(z)

\* C2: when the validation runs on a ZIP without story.json, with a
\* story.json that does not parse or with a stage whose image or audio is
\* neither at the root nor under assets/, convert returns None after an
\* error report, no scratch directory was created and nothing is at the
\* output path.
C2_InvalidPackWritesNothing ==
    (pc = "done" /\ ValidationRan /\ InvalidStudioPack(zip))
    => (/\ result = None_
        /\ progress[Len(progress)][1] = 0
        /\ NothingWritten)

C2_MissingAssetRejected ==
    /\ pc = "done"
    /\ ValidationRan
    /\ ~StoryJsonAbsent(zip) /\ zip.story_valid /\ AssetAbsent(zip)
    /\ result = None_

\* the graph invariants of a story.json
ActionIds(story) == {story.actionNodes[a].id : a \in 1..Len(story.actionNodes)}
StageUuids(story) == {story.stageNodes[i].uuid : i \in 1..Len(story.stageNodes)}
GhostActionRef(story) ==
    \E i \in 1..Len(story.stageNodes) :
        \/ /\ story.stageNodes[i].okTransition # <<>>
           /\ story.stageNodes[i].okTransition[1].actionNode \notin ActionIds(story)
        \/ /\ story.stageNodes[i].homeTransition # <<>>
           /\ story.stageNodes[i].homeTransition[1].actionNode \notin ActionIds(story)
GhostOption(story) ==
    \E a \in 1..Len(story.actionNodes) : \E k \in 1..Len(story.actionNodes[a].options) :
        story.actionNodes[a].options[k] \notin StageUuids(story)
Entrypoints(story) ==
    {i \in 1..Len(story.stageNodes) : story.stageNodes[i].type = "entrypoint"}
GraphViolated(story) ==
    GhostActionRef(story) \/ GhostOption(story) \/ Cardinality(Entrypoints(story)) # 1

\* C3: a conversion of a story.json with a transition to no action node, an
\* option that is no stage node or a number of entrypoint stages other than
\* one ends with an error.
C3_GraphViolationAborts ==
    (pc = "done" /\ tmpdir # "none" /\ GraphViolated(zip.story)) => result = None_

\* the position of the image list entry of a stage
OwnImagePosition(uuid) ==
    image_assets[CHOOSE k \in 1..Len(image_assets) : image_assets[k].nodeUuid = uuid].position

\* C4: in the ni file, the i32 at 512 + 44*i is the position of the image
\* list entry of stage i when that stage has an image, and -1 when not.
C4_ImageIndexIsOwnPosition ==
    "ni" \in DOMAIN output_dir.files =>
        \A i \in 1..Len(zip.story.stageNodes) :
            ReadI32(output_dir.files["ni"], NI_HEADER_SIZE + NI_NODE_SIZE * (i - 1))
            = IF zip.story.stageNodes[i].image # ""
              THEN OwnImagePosition(zip.story.stageNodes[i].uuid)
              ELSE -1

\* the stages that refer to an image or an audio name, the entries of a list
StagesWithImage(name) ==
    {i \in 1..Len(zip.story.stageNodes) : zip.story.stageNodes[i].image = name}
StagesWithAudio(name) ==
    {i \in 1..Len(zip.story.stageNodes) : zip.story.stageNodes[i].audio = name}
EntriesNamed(asset_list, name) == {k \in 1..Len(asset_list) : asset_list[k].name = name}
ImagesOfTwoStages ==
    {n \in StageImages(zip.story.stageNodes) : Cardinality(StagesWithImage(n)) = 2}
AudiosOfTwoStages ==
    {n \in StageAudios(zip.story.stageNodes) : Cardinality(StagesWithAudio(n)) = 2}

KeyOrder == <<11, 10, 9, 8, 15, 14, 13, 12, 3, 2, 1, 0, 7, 6, 5, 4>>
Reordered(decrypted) == [j \in 1..16 |-> decrypted[KeyOrder[j] + 1]]
DeviceKey(uuid) == Reordered(xxtea_decrypt(FromHex(RemoveDashes(UuidText(uuid))), XXTEA_KEY_V2))

\* C6: the bt of a V2 pack is as long as the first 64 bytes of the encrypted
\* ri (12 bytes per image, 64 at most), and decrypting it under the
\* device-specific key of the pack's uuid gives these bytes.
C6_BtDecryptsToRiHead ==
    fpc = "bt" =>
        /\ Len(fbt) = Min(64, Len(fout))
        /\ xxtea_decrypt(fbt, DeviceKey(fuuid)) = Take(fout, 64)

\* C6 as the spec states it: bt is 64 bytes whatever the number of images.
C6_BtIs64Bytes ==
    fpc = "bt" =>
        /\ Len(fbt) = 64
        /\ xxtea_decrypt(fbt, DeviceKey(fuuid)) = Take(fout, 64)

C6_BtOfLongRi == fpc = "bt" /\ Len(fout) > 64 /\ Len(fbt) = 64

\* C7: after a conversion that failed, no file is at the output path.
C7_NoPartialOutput ==
    (pc = "done" /\ result = None_) => out_zip.state = "absent"

\* C8: a conversion that needed the transcoder and did not find it ends
\* with an error.
C8_MissingTranscoderAborts ==
    (pc = "done" /\ \E k \in 1..Len(ffmpeg_calls) : ffmpeg_calls[k].exit = "notfound")
    => result = None_

\* the names whose transcoding ended with a non-zero exit
FailedNames ==
    {ffmpeg_calls[k].name : k \in {j \in 1..Len(ffmpeg_calls) : ffmpeg_calls[j].exit = "nonzero"}}

\* the sf file of a slot: the blank MP3 for a stage without audio or with a
\* failed one, the transcoded audio otherwise, under the first-block rule
ExpectedSf(name) ==
    EncryptAsset(IF name = BLANK_NAME \/ name \in FailedNames THEN BLANK_MP3
                 ELSE Mp3Fixture(name),
                 EncryptFn)

\* C9: after a transcoding has failed, the audio loop ends with the blank MP3
\* in the slots of the failed asset and every other slot as it is without
\* the failure, and the conversion succeeds unless the archive cannot be
\* written.
C9_FailedTranscodeGivesBlank ==
    (FailedNames # {} /\ pc \in {"indices", "metadata", "package", "zipping", "done"})
    => /\ \A j \in 1..Len(audio_assets) :
              output_dir.sf[j - 1] = ExpectedSf(audio_assets[j].name)
       /\ (pc = "done" /\ progress[Len(progress)][2] # "io")
              => (/\ result = DefaultOutputPath
                  /\ out_zip.state = "complete"
                  /\ out_zip.tree.sf = output_dir.sf)

C9_OneFailedOneTranscoded ==
    /\ pc = "done"
    /\ result = DefaultOutputPath
    /\ \E j, k \in 1..Len(audio_assets) :
          /\ audio_assets[j].name \in FailedNames
          /\ out_zip.tree.sf[j - 1] = EncryptAsset(BLANK_MP3, EncryptFn)
          /\ audio_assets[k].name \notin FailedNames \cup {BLANK_NAME}
          /\ out_zip.tree.sf[k - 1] = EncryptAsset(Mp3Fixture(audio_assets[k].name), EncryptFn)

\* C10: for either cipher version and any data, every byte of the result of
\* encrypt_first_block at an offset >= 512 is the input's byte at that offset.
C10_TailUnchanged ==
    fpc = "efb" =>
        \A i \in (ENCRYPTION_BLOCK_SIZE + 1)..Len(fout) :
            i <= Len(fdata) /\ fout[i] = fdata[i]

----------------------------------------------------------------------------
\* the first block of the drawn data, and what the drawn function makes of it
FirstBlock == Take(fdata, Min(ENCRYPTION_BLOCK_SIZE, Len(fdata)))
CipherBlock == CallEncryptFn(ffn, FirstBlock)

\* C11: when the encryption function gives a ciphertext as long as the first
\* block it is given, the result of encrypt_first_block is as long as the
\* data and its bytes from offset 512 on are the data's.
C11_SameLengthKeepsTail ==
    (fpc = "efb" /\ Len(CipherBlock) = Len(FirstBlock)) =>
        /\ Len(fout) = Len(fdata)
        /\ Drop(fout, ENCRYPTION_BLOCK_SIZE) = Drop(fdata, ENCRYPTION_BLOCK_SIZE)

\* data longer than a block whose first block XXTEA has changed
C11_LongDataUnderXxtea ==
    /\ fpc = "efb"
    /\ ffn.version = "V2"
    /\ Len(fdata) > ENCRYPTION_BLOCK_SIZE
    /\ Len(fout) = Len(fdata)
    /\ Take(fout, ENCRYPTION_BLOCK_SIZE) # Take(fdata, ENCRYPTION_BLOCK_SIZE)

\* C12: under the V2 cipher the result of encrypt_first_block is the data's
\* length rounded up to a whole number of 32-bit words when the data has 5
\* to 511 bytes, and the data's length otherwise; under the V3 cipher it is
\* longer than the data exactly when the data has fewer than 528 bytes.
C12_XxteaPadsToWords ==
    fpc = "efb" =>
        /\ ffn.version = "V2" =>
              Len(fout) = IF Len(fdata) >= 5 /\ Len(fdata) < ENCRYPTION_BLOCK_SIZE
                          THEN 4 * ((Len(fdata) + 3) \div 4)
                          ELSE Len(fdata)
        /\ ffn.version = "V3" =>
              (Len(fout) > Len(fdata) <=> Len(fdata) < ENCRYPTION_BLOCK_SIZE + 16)

\* C12 as stated: under the V2 cipher the result is never longer than the data
C12_XxteaNeverLonger ==
    (fpc = "efb" /\ ffn.version = "V2") => Len(fout) <= Len(fdata)

\* five bytes come back as eight under the V2 cipher
C12_FiveBytesBecomeEight ==
    /\ fpc = "efb"
    /\ ffn.version = "V2"
    /\ Len(fdata) = 5
    /\ Len(fout) = 8
    /\ fout = CipherBlock

\* C13: for a 16-byte key, xxtea_decrypt of xxtea_encrypt of a buffer of 5
\* bytes or more is the buffer followed by the zero bytes that fill its last
\* 32-bit word (the buffer itself when its length is a multiple of 4); a
\* buffer of fewer than 5 bytes comes back as it is.
C13_RoundTripPadsToWords ==
    fpc = "decrypted" =>
        fbt = IF Len(fdata) >= 5
              THEN fdata \o Zeros((4 - (Len(fdata) % 4)) % 4)
              ELSE fdata

\* C13 as stated: the round trip gives back every buffer of 5 bytes or more
C13_RoundTripIdentity ==
    (fpc = "decrypted" /\ Len(fdata) >= 5) => fbt = fdata

\* a buffer of whole words that the cipher changed and the round trip restored
C13_WholeWordsRestored ==
    /\ fpc = "decrypted"
    /\ Len(fdata) >= 8
    /\ Len(fdata) % 4 = 0
    /\ ffn.key # XXTEA_KEY_V2
    /\ fout # fdata
    /\ fbt = fdata

\* the stages of the story without audio
SilentStages == {k \in 1..Len(zip.story.stageNodes) : zip.story.stageNodes[k].audio = ""}

\* the 104 bytes of the blank MP3 under XXTEA with the common key
BlankSfV2 == xxtea_encrypt(BLANK_MP3, XXTEA_KEY_V2)

PackUuid == IF zip.story.uuid # <<>> THEN zip.story.uuid[1] ELSE zip.story.stageNodes[1].uuid
\* the last eight hexadecimal digits of a uuid in upper case
RefOfUuid(uuid) == [j \in 1..8 |-> UpperHexChars[UuidNibbles(uuid)[24 + j] + 1]]
UnderRef(ref) ==
    /\ ArcNames(out_zip.tree) # {}
    /\ \A a \in ArcNames(out_zip.tree) : Len(a) >= 3 /\ a[1] = ".content" /\ a[2] = ref

\* C15: every entry of a written output ZIP lies under .content/<REF>/, where
\* REF is eight characters among 0-9 and A-F, the last eight hexadecimal
\* digits in upper case of the uuid key of story.json or, without that key,
\* of the uuid of the first stage node.
C15_EntriesUnderRefOfPackUuid ==
    out_zip.state = "complete" =>
        /\ UnderRef(RefOfUuid(PackUuid))
        /\ Len(out_zip.tree.ref) = 8
        /\ \A j \in 1..8 : \E k \in 1..16 : out_zip.tree.ref[j] = UpperHexChars[k]

\* C15 as stated: REF comes from the uuid of the entrypoint stage node
C15_RefOfEntrypoint ==
    (out_zip.state = "complete" /\ Cardinality(Entrypoints(zip.story)) = 1) =>
        UnderRef(RefOfUuid(
            zip.story.stageNodes[CHOOSE i \in Entrypoints(zip.story) : TRUE].uuid))

\* a pack written from a story.json without uuid key whose entrypoint is the
\* second stage: its entries are under the REF of the first stage
C15_EntrypointNotFirst ==
    /\ out_zip.state = "complete"
    /\ zip.story.uuid = <<>>
    /\ Entrypoints(zip.story) = {2}
    /\ out_zip.tree.ref = RefOfUuid(zip.story.stageNodes[1].uuid)
    /\ out_zip.tree.ref # RefOfUuid(zip.story.stageNodes[2].uuid)
    /\ Cardinality(ArcNames(out_zip.tree)) >= 8

\* the three i32 of the ni file from the given offset of stage i on
NiFields(i, off) ==
    [j \in 1..3 |-> ReadI32(output_dir.files["ni"],
                            NI_HEADER_SIZE + NI_NODE_SIZE * (i - 1) + off + 4 * (j - 1))]
\* the place among the action nodes of the action a transition names, or 0
ActionPlace(t) ==
    IF \E a \in 1..Len(zip.story.actionNodes) : zip.story.actionNodes[a].id = t[1].actionNode
    THEN CHOOSE a \in 1..Len(zip.story.actionNodes) :
             zip.story.actionNodes[a].id = t[1].actionNode
    ELSE 0
\* the number of li entries before those of the action at place a
LiPosition(a) ==
    Len(Concat([m \in 1..(a - 1) |-> zip.story.actionNodes[m].options]))
\* what a transition to an existing action is written as
TransitionFields(t) ==
    <<LiPosition(ActionPlace(t)), Len(zip.story.actionNodes[ActionPlace(t)].options),
      IF t[1].optionIndex = <<>> THEN 0 ELSE t[1].optionIndex[1]>>
FieldsAsClaimed(i, off, t) ==
    /\ t = <<>> => NiFields(i, off) = <<-1, -1, -1>>
    /\ (t # <<>> /\ ActionPlace(t) # 0) => NiFields(i, off) = TransitionFields(t)

\* C16: in the ni file, the three i32 at offsets 8, 12, 16 of a node (OK) and
\* at 20, 24, 28 (Home) are the absolute position in li of the options of the
\* action the transition names, the number of its options and the option
\* index (0 when the transition gives none), and -1, -1, -1 for a node
\* without that transition.
C16_TransitionFields ==
    "ni" \in DOMAIN output_dir.files =>
        \A i \in 1..Len(zip.story.stageNodes) :
            /\ FieldsAsClaimed(i, 8, zip.story.stageNodes[i].okTransition)
            /\ FieldsAsClaimed(i, 20, zip.story.stageNodes[i].homeTransition)

\* a lone entrypoint without transitions
LoneEntrypointWritten ==
    /\ "ni" \in DOMAIN output_dir.files
    /\ Len(zip.story.stageNodes) = 1
    /\ zip.story.stageNodes[1].type = "entrypoint"
    /\ NiFields(1, 8) = <<-1, -1, -1>> /\ NiFields(1, 20) = <<-1, -1, -1>>

\* a second stage whose OK transition names the action without options and
\* whose Home transition names the action with two
C16_BothTransitionsWritten ==
    /\ "ni" \in DOMAIN output_dir.files
    /\ Len(zip.story.stageNodes) = 2
    /\ zip.story.stageNodes[1].homeTransition = <<>>
    /\ NiFields(1, 20) = <<-1, -1, -1>>
    /\ NiFields(2, 8) = <<2, 0, 0>> /\ NiFields(2, 20) = <<0, 2, 1>>

\* no two stage nodes of the story carry the same uuid
DistinctStageUuids ==
    \A i, j \in 1..Len(zip.story.stageNodes) :
        zip.story.stageNodes[i].uuid = zip.story.stageNodes[j].uuid => i = j

\* C17: in the ni file, the i32 at offset 20 of the header is the number of
\* stage nodes, and when the stage nodes carry distinct uuids the i32 at
\* 512 + 44*i + 4 is i for every stage i (counted from 0).
C17_AudioIndexIsStagePosition ==
    "ni" \in DOMAIN output_dir.files =>
        /\ ReadI32(output_dir.files["ni"], 20) = Len(zip.story.stageNodes)
        /\ Len(audio_assets) = Len(zip.story.stageNodes)
        /\ DistinctStageUuids =>
              \A i \in 1..Len(zip.story.stageNodes) :
                  ReadI32(output_dir.files["ni"],
                          NI_HEADER_SIZE + NI_NODE_SIZE * (i - 1) + 4) = i - 1

\* three stages, the first and the last with the same audio, the second with
\* none: the audio indices are 0, 1 and 2
C17_SharedAudioOwnIndex ==
    /\ "ni" \in DOMAIN output_dir.files
    /\ DistinctStageUuids
    /\ Len(zip.story.stageNodes) = 3
    /\ zip.story.stageNodes[1].audio = zip.story.stageNodes[3].audio
    /\ zip.story.stageNodes[2].audio = ""
    /\ ReadI32(output_dir.files["ni"], 20) = 3
    /\ ReadI32(output_dir.files["ni"], NI_HEADER_SIZE + 4) = 0
    /\ ReadI32(output_dir.files["ni"], NI_HEADER_SIZE + NI_NODE_SIZE + 4) = 1
    /\ ReadI32(output_dir.files["ni"], NI_HEADER_SIZE + 2 * NI_NODE_SIZE + 4) = 2

\* C18: the i16 at offset 2 of the ni header is the version of story.json
\* when it has one, and 1 when it has none.
C18_VersionDefaultsToOne ==
    "ni" \in DOMAIN output_dir.files =>
        ReadI16(output_dir.files["ni"], 2) =
            IF zip.story.version = <<>> THEN 1 ELSE zip.story.version[1]

\* the V3 cipher is asked for without its key or without its IV
V3KeyOrIvMissing == config.version = "V3" /\ (config.aes_key = <<>> \/ config.aes_iv = <<>>)

\* C19: a conversion of a studio pack to V3 without AES key or without IV
\* never goes past the choice of the cipher: no rf or sf file, no index file,
\* no md and no output ZIP is written, and convert returns None.
C19_V3WithoutKeyAborts ==
    (V3KeyOrIvMissing /\ ~is_lunii_pack(zip.names)) =>
        /\ pc \in {"idle", "start", "extract", "done"}
        /\ out_zip = NoZip
        /\ output_dir.rf = <<>> /\ output_dir.sf = <<>>
        /\ output_dir.files = <<>> /\ output_dir.md = <<>>
        /\ pc = "done" => (result = None_ /\ tmpdir \in {"none", "deleted"})

\* a conversion to V3 with a key and no IV has ended on the ValueError
C19_V3WithoutIvEnded ==
    /\ pc = "done"
    /\ config.version = "V3"
    /\ config.aes_key # <<>>
    /\ config.aes_iv = <<>>
    /\ validate_studio_pack(zip)
    /\ progress[Len(progress)][2] = "encrypt_fn"
    /\ result = None_
    /\ tmpdir = "deleted"
    /\ out_zip = NoZip

\* the stages of the story with an image, and the images Image.open rejects
StagesWithAnImage == {k \in 1..Len(zip.story.stageNodes) : zip.story.stageNodes[k].image # ""}
UndecodableImages ==
    {n \in StageImages(zip.story.stageNodes) : n \in env.bad_images /\ ~AssetMissing(zip.names, n)}

\* C20: a conversion of a studio pack one of whose images cannot be decoded
\* writes no output ZIP and returns None, and a written output ZIP holds one
\* rf file for every stage with an image.
C20_UndecodableImageAborts ==
    /\ (UndecodableImages # {} /\ ~is_lunii_pack(zip.names)) =>
          /\ out_zip = NoZip
          /\ pc \notin {"audio", "indices", "metadata", "package", "zipping"}
          /\ pc = "done" => (result = None_ /\ tmpdir \in {"none", "deleted"})
    /\ out_zip.state = "complete" =>
          DOMAIN out_zip.tree.rf = 0..(Cardinality(StagesWithAnImage) - 1)

\* the second image of a pack was rejected after the first was converted
C20_SecondImageRejected ==
    /\ pc = "done"
    /\ env.bad_images = {"q.png"}
    /\ UndecodableImages = {"q.png"}
    /\ DOMAIN output_dir.rf = {0}
    /\ progress[Len(progress)][2] = "image"
    /\ result = None_
    /\ tmpdir = "deleted"
    /\ out_zip = NoZip

\* convert has created the scratch directory
ScratchCreated == \E k \in 1..Len(progress) : progress[k][2] = "extract"

\* C21: when convert has returned after creating the scratch directory, by
\* the successful return, by an error return or by an exception raised in
\* the pipeline, the scratch directory no longer exists; while it exists the
\* conversion is inside _do_convert.
C21_ScratchDeletedOnReturn ==
    /\ (pc = "done" /\ ScratchCreated) => tmpdir = "deleted"
    /\ tmpdir = "exists" => (ScratchCreated /\ pc \notin {"idle", "start", "done"})
    /\ (pc = "done" /\ ~ScratchCreated) => tmpdir = "none"

\* an exception raised while the archive was written, after the index files
\* were written into the scratch directory
C21_DeletedAfterWriteError ==
    /\ pc = "done"
    /\ ScratchCreated
    /\ tmpdir = "deleted"
    /\ result = None_
    /\ progress[Len(progress)][2] = "io"
    /\ "ni" \in DOMAIN output_dir.files

\* 0.00, 0.05, 0.10, 0.15, 0.20, 0.40, 0.75, 0.85, 0.90 and 1.00 in 1200ths
ProgressBoundaries == <<0, 60, 120, 180, 240, 480, 900, 1020, 1080, 1200>>
\* the first event with the given fraction, 0 when there is none
FirstEventAt(value) ==
    IF \E k \in 1..Len(progress) : progress[k][1] = value
    THEN CHOOSE k \in 1..Len(progress) :
             progress[k][1] = value /\ \A m \in 1..(k - 1) : progress[m][1] # value
    ELSE 0
\* convert has returned the path of a pack it has encoded
EncodeSucceeded == pc = "done" /\ result = DefaultOutputPath

\* C22: after a successful encode of a studio pack every progress event has
\* a fraction between 0 and 1, no event has a smaller fraction than the one
\* before it, the boundaries 0.00, 0.05, 0.10, 0.15, 0.20, 0.40, 0.75, 0.85,
\* 0.90 and 1.00 have each been emitted, in that order, and the last event
\* has the fraction 1.00.
C22_ProgressMonotoneThroughBoundaries ==
    EncodeSucceeded =>
        /\ \A k \in 1..Len(progress) : progress[k][1] >= 0 /\ progress[k][1] <= 1200
        /\ \A k \in 1..(Len(progress) - 1) : progress[k][1] <= progress[k + 1][1]
        /\ FirstEventAt(ProgressBoundaries[1]) = 1
        /\ \A b \in 1..9 :
              /\ FirstEventAt(ProgressBoundaries[b]) > 0
              /\ FirstEventAt(ProgressBoundaries[b]) < FirstEventAt(ProgressBoundaries[b + 1])
        /\ progress[Len(progress)][1] = 1200

\* a successful encode of three stages with two images: ten boundaries, two
\* image events and three audio events
C22_FifteenEvents ==
    /\ EncodeSucceeded
    /\ Len(zip.story.stageNodes) = 3
    /\ Len(image_assets) = 2
    /\ Len(progress) = 15
    /\ progress[6][1] = 360 /\ progress[9][1] = 600

\* C23: the ni file is 512 + 44 * (number of stage nodes) bytes long, and its
\* header holds 512 at offset 4 (first node), 44 at offset 8 (node size) and
\* the number of stage nodes at offset 12.
C23_NiSizeAndHeader ==
    "ni" \in DOMAIN output_dir.files =>
        /\ Len(output_dir.files["ni"]) = 512 + 44 * Len(zip.story.stageNodes)
        /\ ReadI32(output_dir.files["ni"], 4) = 512
        /\ ReadI32(output_dir.files["ni"], 8) = 44
        /\ ReadI32(output_dir.files["ni"], 12) = Len(zip.story.stageNodes)

\* the ni file of three stages, one of them without image, in the written pack
C23_NiOfThreeStages ==
    /\ out_zip.state = "complete"
    /\ Len(zip.story.stageNodes) = 3
    /\ Len(image_assets) = 2
    /\ Len(out_zip.tree.files["ni"]) = 644
    /\ ReadI32(out_zip.tree.files["ni"], 12) = 3

\* the number of options of all the action nodes of the story
TotalOptionCount == LiPosition(Len(zip.story.actionNodes) + 1)

\* C24: the plaintext li is 4 bytes for every option of every action node (no
\* byte without action nodes), and the li file of a V2 encode is as long.
C24_LiFourBytesPerOption ==
    "li" \in DOMAIN output_dir.files =>
        /\ Len(PlainIndex("li")) = 4 * TotalOptionCount
        /\ config.version = "V2" => Len(output_dir.files["li"]) = 4 * TotalOptionCount

\* the li of a story without action nodes
EmptyLiWritten ==
    /\ "li" \in DOMAIN output_dir.files
    /\ zip.story.actionNodes = <<>>
    /\ output_dir.files["li"] = <<>>

\* a V2 pack written with five options in three action nodes, one of them to
\* a stage the story does not have: 20 bytes that XXTEA has changed
C24_LiOfFiveOptions ==
    /\ out_zip.state = "complete"
    /\ config.version = "V2"
    /\ Len(zip.story.actionNodes) = 3
    /\ Len(zip.story.stageNodes) = 1
    /\ TotalOptionCount = 5
    /\ Len(out_zip.tree.files["li"]) = 20
    /\ out_zip.tree.files["li"] # PlainIndex("li")

\* the u32 of the plaintext li at the given index
LiEntry(index) == ReadI32(PlainIndex("li"), 4 * index)
\* the option is the uuid of a stage node
OptionResolves(uuid) == \E j \in 1..Len(zip.story.stageNodes) : zip.story.stageNodes[j].uuid = uuid
\* the declaration position of the stage node with the given uuid
StagePosition(uuid) ==
    (CHOOSE j \in 1..Len(zip.story.stageNodes) : zip.story.stageNodes[j].uuid = uuid) - 1
\* the entries of li from the given index on are the stages of the options
EntriesAreOptions(index, options) ==
    \A k \in 1..Len(options) :
        OptionResolves(options[k]) => LiEntry(index + k - 1) = StagePosition(options[k])
\* the position the ni file gives for a transition leads to the options of
\* the action the transition names
NiLeadsToOptions(i, off, t) ==
    (t # <<>> /\ ActionPlace(t) # 0) =>
        EntriesAreOptions(NiFields(i, off)[1], zip.story.actionNodes[ActionPlace(t)].options)

\* C25: with distinct stage uuids, for every action node and every option of
\* it that is a stage node, the u32 of li at the number of options of the
\* earlier action nodes plus the place of the option is the declaration
\* position of that stage, an action node without options taking no place;
\* and the position the ni file holds for a transition is where the options
\* of its action node begin in li.
C25_NiAndLiAgree ==
    ({"ni", "li"} \subseteq DOMAIN output_dir.files /\ DistinctStageUuids) =>
        /\ \A a \in 1..Len(zip.story.actionNodes) :
              EntriesAreOptions(LiPosition(a), zip.story.actionNodes[a].options)
        /\ \A i \in 1..Len(zip.story.stageNodes) :
              /\ NiLeadsToOptions(i, 8, zip.story.stageNodes[i].okTransition)
              /\ NiLeadsToOptions(i, 20, zip.story.stageNodes[i].homeTransition)

\* the second stage leads to the three options of the third action node,
\* which begin at the index 2 of li since the second action node has none
C25_OptionsAfterEmptyAction ==
    /\ {"ni", "li"} \subseteq DOMAIN output_dir.files
    /\ Len(zip.story.stageNodes) = 2
    /\ Len(zip.story.actionNodes) = 3
    /\ zip.story.actionNodes[2].options = <<>>
    /\ NiFields(2, 8) = <<2, 3, 0>>
    /\ <<LiEntry(0), LiEntry(1), LiEntry(2), LiEntry(3), LiEntry(4)>> = <<1, 0, 0, 0, 1>>

\* the calls of the transcoder for the given name
CallsFor(name) == {k \in 1..Len(ffmpeg_calls) : ffmpeg_calls[k].name = name}
\* the sf slots written so far for the stages with the given audio
SlotsOf(name) == {i - 1 : i \in StagesWithAudio(name)} \cap DOMAIN output_dir.sf

\* C26: within one conversion the transcoder is called at most once for an
\* audio name, whatever the number of stages with that audio and whatever
\* the outcome of the call, and the sf slots of the stages with the same
\* audio hold the same bytes.
C26_OneTranscodePerName ==
    \A name \in StageAudios(zip.story.stageNodes) :
        /\ Cardinality(CallsFor(name)) <= 1
        /\ \A s, t \in SlotsOf(name) : output_dir.sf[s] = output_dir.sf[t]

\* the audio of the first and the third stage was transcoded once, the call
\* failed, and both slots hold the same bytes
C26_FailedOnceForTwoStages ==
    /\ pc = "done"
    /\ Len(zip.story.stageNodes) = 3
    /\ zip.story.stageNodes[1].audio = zip.story.stageNodes[3].audio
    /\ zip.story.stageNodes[1].audio # zip.story.stageNodes[2].audio
    /\ zip.story.stageNodes[2].audio # ""
    /\ Cardinality(CallsFor(zip.story.stageNodes[1].audio)) = 1
    /\ zip.story.stageNodes[1].audio \in FailedNames
    /\ Len(ffmpeg_calls) = 2
    /\ SlotsOf(zip.story.stageNodes[1].audio) = {0, 2}
    /\ output_dir.sf[0] = output_dir.sf[2]
    /\ output_dir.sf[0] # output_dir.sf[1]

\* what a pair of the RLE4 stream stands for: the pixels of a run, -1 for an
\* end of line, -2 for the end of the bitmap
PairExpansion(stream, k) ==
    IF stream[2 * k - 1] = 0 THEN <<-1 - stream[2 * k]>>
    ELSE [j \in 1..stream[2 * k - 1] |-> stream[2 * k] \div 16]
RECURSIVE ExpandPairs(_, _, _)
ExpandPairs(stream, lo, hi) ==
    IF lo > hi THEN <<>>
    ELSE IF lo = hi THEN PairExpansion(stream, lo)
    ELSE ExpandPairs(stream, lo, (lo + hi) \div 2)
         \o ExpandPairs(stream, (lo + hi) \div 2 + 1, hi)
\* a run of 1 to 255 pixels of one of the 16 levels, or one of the markers
PairIsRunOrMarker(stream, k) ==
    \/ /\ stream[2 * k - 1] \in 1..255
       /\ \E c \in 0..15 : stream[2 * k] = 16 * c + c
    \/ /\ stream[2 * k - 1] = 0
       /\ stream[2 * k] \in {0, 1}
\* the rows of the image, each pixel shifted right by four bits, an end of
\* line after each row but the last and the end of the bitmap after the last
QuantizedRows(pattern, height) ==
    Concat([r \in 1..height |->
        [c \in 1..320 |-> Pixel(pattern, c - 1, r - 1) \div 16]
        \o (IF r < height THEN <<-1>> ELSE <<-2>>)])

\* C27: the RLE4 stream of an image is made of runs of 1 to 255 pixels with
\* the colour byte (c<<4)|c and of markers; expanding it gives, row after
\* row, the 320 pixels of the row shifted right by four bits, with (0, 0)
\* between two rows and (0, 1) and nothing else after the last; and the file
\* is 118 bytes followed by the stream, with its size at offset 2.
C27_Rle4StreamIsTheRows ==
    fpc = "bmp" =>
        /\ Len(fdata) % 2 = 0
        /\ \A k \in 1..(Len(fdata) \div 2) : PairIsRunOrMarker(fdata, k)
        /\ ExpandPairs(fdata, 1, Len(fdata) \div 2) = QuantizedRows(rle.pattern, rle.height)
        /\ Len(fout) = 118 + Len(fdata)
        /\ ReadI32(fout, 2) = 118 + Len(fdata)
        /\ Drop(fout, 118) = fdata

\* two plain rows: each is a run of 255 and a run of 65
C27_PlainRowsSplitAt255 ==
    /\ fpc = "bmp"
    /\ rle.height = 2
    /\ fdata = <<255, 204, 65, 204, 0, 0, 255, 204, 65, 204, 0, 1>>
    /\ Len(fout) = 130

\* the ASCII codes of 000\ and of the eight decimal digits of k
IndexEntry(k) ==
    <<48, 48, 48, 92,
      48 + ((k \div 10000000) % 10), 48 + ((k \div 1000000) % 10),
      48 + ((k \div 100000) % 10), 48 + ((k \div 10000) % 10),
      48 + ((k \div 1000) % 10), 48 + ((k \div 100) % 10),
      48 + ((k \div 10) % 10), 48 + (k % 10)>>
\* n entries, numbered from 0
IndexOfEntries(n) == [b \in 1..(12 * n) |-> IndexEntry((b - 1) \div 12)[((b - 1) % 12) + 1]]
\* the first min(512, len) bytes decrypted under the common key, and the rest
FirstBlockDecrypted(data) ==
    xxtea_decrypt(Take(data, Min(512, Len(data))), XXTEA_KEY_V2) \o Drop(data, 512)

\* an index of more than 512 bytes, encrypted as _do_convert encrypts ri and
\* si under the V2 cipher, is restored by the same decryption
LongIndexRestored ==
    FirstBlockDecrypted(encrypt_first_block(IndexOfEntries(LongIndexEntries),
                                            _get_encrypt_fn("V2", <<>>, <<>>),
                                            ENCRYPTION_BLOCK_SIZE))
        = IndexOfEntries(LongIndexEntries)

\* C28: the plaintext ri is one 12-byte entry for each image asset and the
\* plaintext si one for each stage, the entry at place k being 000\ and k
\* in eight decimal digits, so that both are multiples of 12 bytes long; and
\* decrypting the first min(512, length) bytes of the ri and of the si of a
\* written V2 pack under the common key gives these plaintexts.
C28_AssetIndexEntries ==
    /\ {"ri", "si"} \subseteq DOMAIN output_dir.files =>
          /\ PlainIndex("ri") = IndexOfEntries(Len(image_assets))
          /\ PlainIndex("si") = IndexOfEntries(Len(zip.story.stageNodes))
          /\ Len(PlainIndex("ri")) % 12 = 0 /\ Len(PlainIndex("si")) % 12 = 0
    /\ (out_zip.state = "complete" /\ config.version = "V2") =>
          /\ FirstBlockDecrypted(out_zip.tree.files["ri"]) = IndexOfEntries(Len(image_assets))
          /\ FirstBlockDecrypted(out_zip.tree.files["si"])
                 = IndexOfEntries(Len(zip.story.stageNodes))
          /\ LongIndexRestored

\* a V2 pack written with two image entries and three stages
C28_TwoImagesThreeStages ==
    /\ out_zip.state = "complete"
    /\ config.version = "V2"
    /\ Len(out_zip.tree.files["ri"]) = 24
    /\ Len(out_zip.tree.files["si"]) = 36
    /\ out_zip.tree.files["ri"] # IndexOfEntries(2)
    /\ out_zip.tree.files["si"] # IndexOfEntries(3)
    /\ SubSeq(IndexOfEntries(3), 25, 36) = <<48, 48, 48, 92, 48, 48, 48, 48, 48, 48, 48, 50>>

\* a progress event with the fraction 1.0 has been emitted
FullProgressEmitted == \E k \in 1..Len(progress) : progress[k][1] = 1200

\* C29: the fraction 1.0 is emitted when and only when convert returns a
\* path; a call that has failed, in the validation or by an exception of the
\* pipeline, has returned None after a last progress event with the fraction
\* 0.0 that is not the opening one; and every call returns.
C29_FullProgressIffPath ==
    /\ FullProgressEmitted => (pc = "done" /\ result \in {ZIP_PATH, DefaultOutputPath})
    /\ pc = "done" =>
          /\ result \in {None_, ZIP_PATH, DefaultOutputPath}
          /\ result \in {ZIP_PATH, DefaultOutputPath} => FullProgressEmitted
          /\ result = None_ =>
                /\ Len(progress) >= 3
                /\ progress[Len(progress)][1] = 0
                /\ progress[Len(progress)][2] \notin {"check", "validate", "extract"}

\* a call that failed while the archive was written, after the event of the
\* fraction 0.90
C29_FailedAfterImages ==
    /\ pc = "done"
    /\ result = None_
    /\ ~FullProgressEmitted
    /\ \E k \in 1..Len(progress) : progress[k][1] = 1080
    /\ progress[Len(progress)] = <<0, "io">>


\* the image count and the sound count of the header of a written ni
NiImageCount == ReadI32(out_zip.tree.files["ni"], 16)
NiSoundCount == ReadI32(out_zip.tree.files["ni"], 20)

\* C30: in the archive of a successful encode the files of rf/000 are the
\* numbers 0..I-1 and those of sf/000 the numbers 0..S-1, one file each with
\* no gap and no extra, I and S being the image count and the sound count of
\* the ni header; the ri and si that are generated hold I and S entries, and
\* under the V2 cipher the written files are as long as these entries.
C30_AssetFilesMatchNiCounts ==
    EncodeSucceeded =>
        /\ DOMAIN out_zip.tree.rf = 0..(NiImageCount - 1)
        /\ DOMAIN out_zip.tree.sf = 0..(NiSoundCount - 1)
        /\ PlainIndex("ri") = IndexOfEntries(NiImageCount)
        /\ PlainIndex("si") = IndexOfEntries(NiSoundCount)
        /\ config.version = "V2" =>
              /\ Len(out_zip.tree.files["ri"]) = 12 * NiImageCount
              /\ Len(out_zip.tree.files["si"]) = 12 * NiSoundCount

\* a pack written with fewer images than stages
C30_TwoImagesForThreeStages ==
    /\ EncodeSucceeded
    /\ NiImageCount = 2 /\ NiSoundCount = 3
    /\ DOMAIN out_zip.tree.rf = {0, 1}
    /\ DOMAIN out_zip.tree.sf = {0, 1, 2}

=============================================================================
